---------------------------- MODULE Spec2Model ----------------------------
(***************************************************************************)
(* A model of the Mafia game engine of src/main.py: one GameState (the     *)
(* session of one guild), the handlers that mutate it and the coroutines   *)
(* they leave in flight.  Python's asyncio runs the code between two       *)
(* awaits of a coroutine without interruption, so every action below is    *)
(* one such stretch of one coroutine: from the delivery of an interaction  *)
(* or the wake-up after an await, to the next await that really suspends   *)
(* (a network call or asyncio.sleep).                                      *)
(***************************************************************************)
EXTENDS Integers, Sequences, FiniteSets, Bags, TLC

\* ------------------------------------------------------------ bounds
\* Size of the universe of member ids (1..MaxPlayers).
MaxPlayers == 4
\* Start requests (Start button, startgame, teststart) in flight at once.
MaxStarts == 2
\* End requests (Exit button, endgame) whose cleanup is in flight at once.
MaxStops == 1
\* Night-action confirm handlers in flight at once.
MaxConfirms == 2
\* Nights a session may enter before the model stops starting new ones.
MaxRounds == 2
\* Largest roster of the vote tallies.
MaxVoters == 6
\* Largest configured number of mafia, of doctors and of police.
MaxMafia == 2
MaxDoctor == 1
MaxPolice == 1

\* ------------------------------------------------------------ values
Ids == 1 .. MaxPlayers

\* Optional[...] = None
None == 0
\* MafiaConfirmView.confirm stores -1 for "skip the kill"
SKIP_KILL == -1

\* class Role(Enum)
CITIZEN == "Citizen"
MAFIA == "Mafia"
DOCTOR == "Doctor"
POLICE == "Police"
Role == {CITIZEN, MAFIA, DOCTOR, POLICE}

\* class GamePhase(Enum)
WAITING == "waiting"
REGISTRATION == "registration"
NIGHT == "night"
DAY == "day"
VOTING == "voting"
ENDED == "ended"
GamePhase == {WAITING, REGISTRATION, NIGHT, DAY, VOTING, ENDED}

\* The session this model follows, as the value of active_games[guild_id].
ThisGame == 1

\* A GameState that a later start command creates for the same guild.
NewGame == 2

VARIABLES
    phase,                      \* GameState.phase
    players,                    \* GameState.players: member id -> Player
    settings,                   \* GameState.settings
    round_number,               \* GameState.round_number
    mafia_votes,                \* GameState.mafia_votes: voter id -> target id
    mafia_target,               \* GameState.mafia_target
    doctor_save,                \* GameState.doctor_save
    police_investigation,       \* GameState.police_investigation
    night_actions_expected,     \* GameState.night_actions_expected
    night_actions_received,     \* GameState.night_actions_received
    night_auto_end_triggered,   \* GameState.night_auto_end_triggered
    night_actions_submitted,    \* GameState.night_actions_submitted
    mafia_skips_used,           \* GameState.mafia_skips_used
    discussion_ended,           \* GameState.discussion_ended
    day_votes,                  \* GameState.day_votes: voter id -> target id or None
    active_games,               \* active_games[guild_id]: ThisGame, NewGame or None
    tasks,                      \* bag of suspended coroutines
    menus,                      \* options of the views sent so far
    lastOp                      \* the interaction the last step delivered

vars == <<phase, players, settings, round_number, mafia_votes, mafia_target,
          doctor_save, police_investigation, night_actions_expected,
          night_actions_received, night_auto_end_triggered,
          night_actions_submitted, mafia_skips_used, discussion_ended,
          day_votes, active_games, tasks, menus, lastOp>>

\* The fields of the session that belong to the night round.
nightVars == <<mafia_votes, mafia_target, doctor_save, police_investigation,
               night_actions_expected, night_actions_received,
               night_auto_end_triggered, night_actions_submitted>>

\* ------------------------------------------------------------ helpers
EmptyMap == [x \in {} |-> None]

\* dict assignment d[k] = v
Put(d, k, v) == [x \in DOMAIN d \cup {k} |-> IF x = k THEN v ELSE d[x]]

\* del d[k]
Del(d, k) == [x \in DOMAIN d \ {k} |-> d[x]]

\* dataclass Player, as join_button and test_mafia create it
Player(isDummy) ==
    [role |-> CITIZEN, is_alive |-> TRUE, doctor_self_save_used |-> FALSE,
     dummy |-> isDummy]

\* dataclass GameSettings with its defaults
GameSettings ==
    [num_mafia |-> 1, num_doctor |-> 1, num_police |-> 1, voting_time |-> 30,
     discussion_time |-> 240, registration_time |-> 90, mafia_skip_kills |-> 1,
     role_reveal_mode |-> 3, test_mode |-> FALSE]

\* A suspended coroutine: which one, where it waits, and its local variables.
Task(kind, pc, who, arg, flag) ==
    [kind |-> kind, pc |-> pc, who |-> who, arg |-> arg, flag |-> flag]

Spawn(bag, t) == bag (+) SetToBag({t})
Finish(bag, t) == bag (-) SetToBag({t})
Move(bag, t, u) == (bag (-) SetToBag({t})) (+) SetToBag({u})
Waiting == BagToSet(tasks)
InFlight(kinds) ==
    BagCardinality([t \in {u \in Waiting : u.kind \in kinds} |-> tasks[t]])

NoOp == [op |-> "none", who |-> None, arg |-> None, reply |-> "none"]
Op(name, who, arg, reply) == [op |-> name, who |-> who, arg |-> arg, reply |-> reply]

AlivePlayers(ps) == {p \in DOMAIN ps : ps[p].is_alive}
AliveWithRole(ps, r) == {p \in DOMAIN ps : ps[p].is_alive /\ ps[p].role = r}

\* get_game(guild_id) returns this session
Registered == active_games = ThisGame

\* ------------------------------------------------------------ role assignment
\* random.shuffle(player_list): every order of the roster
Shuffles(S) ==
    {f \in [1 .. Cardinality(S) -> S] : \A i, j \in DOMAIN f : i # j => f[i] # f[j]}

\* Variant of RoleAtIndex whose mafia loop runs once too often.
RoleAtIndexInclusive(idx, s) ==
    IF idx <= s.num_mafia THEN MAFIA
    ELSE IF idx < s.num_mafia + s.num_doctor THEN DOCTOR
    ELSE IF idx < s.num_mafia + s.num_doctor + s.num_police THEN POLICE
    ELSE CITIZEN

\* The role the loops of assign_roles give to index idx (0-based) of the
\* shuffled list: mafia first, then doctors, then police, the rest citizens.
RoleAtIndex(idx, s) ==
    IF idx < s.num_mafia THEN MAFIA
    ELSE IF idx < s.num_mafia + s.num_doctor THEN DOCTOR
    ELSE IF idx < s.num_mafia + s.num_doctor + s.num_police THEN POLICE
    ELSE CITIZEN

\* assign_roles(game) with the shuffle outcome player_list
assign_roles(ps, s, player_list) ==
    [p \in DOMAIN ps |->
        LET i == CHOOSE k \in DOMAIN player_list : player_list[k] = p
        IN  [ps[p] EXCEPT !.role = RoleAtIndex(i - 1, s)]]

min_players(s) == s.num_mafia + s.num_doctor + s.num_police + 1


\* ------------------------------------------------------------ construction
\* start_mafia: create_game(), phase = REGISTRATION, nobody registered yet.
\* test_mafia(num_players): the same with test_mode set, the tester (id 1)
\* and num_players - 1 DummyMember players registered, timers reduced.
TestRoster(n) == [p \in 1 .. n |-> Player(p # 1)]

FreshSession(ps, s, ts) ==
    /\ phase = REGISTRATION
    /\ players = ps
    /\ settings = s
    /\ round_number = 0
    /\ mafia_votes = EmptyMap
    /\ mafia_target = None
    /\ doctor_save = None
    /\ police_investigation = None
    /\ night_actions_expected = 0
    /\ night_actions_received = 0
    /\ night_auto_end_triggered = FALSE
    /\ night_actions_submitted = {}
    /\ mafia_skips_used = 0
    /\ discussion_ended = FALSE
    /\ day_votes = EmptyMap
    /\ active_games = ThisGame
    /\ tasks = ts
    /\ menus = {}
    /\ lastOp = NoOp

TestSettings ==
    [GameSettings EXCEPT !.test_mode = TRUE, !.voting_time = 20,
                         !.discussion_time = 15]

start_mafia == FreshSession(EmptyMap, GameSettings, EmptyBag)

test_mafia(num_players) ==
    /\ num_players >= 4
    /\ num_players <= 10
    /\ FreshSession(TestRoster(num_players), TestSettings, EmptyBag)

Init == start_mafia \/ \E n \in 4 .. MaxPlayers : test_mafia(n)

\* ------------------------------------------------------------ registration
\* RegistrationView.join_button.  The view is sent by start_mafia only.
join_button(p) ==
    /\ Registered
    /\ phase = REGISTRATION
    /\ ~settings.test_mode
    /\ p \notin DOMAIN players
    /\ players' = Put(players, p, Player(FALSE))
    /\ lastOp' = NoOp
    /\ UNCHANGED <<phase, settings, round_number, nightVars, mafia_skips_used,
                   discussion_ended, day_votes, active_games, tasks, menus>>

\* RegistrationView.leave_button
leave_button(p) ==
    /\ Registered
    /\ phase = REGISTRATION
    /\ ~settings.test_mode
    /\ p \in DOMAIN players
    /\ players' = Del(players, p)
    /\ lastOp' = NoOp
    /\ UNCHANGED <<phase, settings, round_number, nightVars, mafia_skips_used,
                   discussion_ended, day_votes, active_games, tasks, menus>>

\* The check that start_button and force_start_game make before they await.
StartAccepted ==
    /\ Registered
    /\ phase = REGISTRATION
    /\ Cardinality(DOMAIN players) >= min_players(settings)

\* RegistrationView.start_button up to its first await (send_message, then
\* registration_message.edit): the handler is accepted and suspends.
start_button ==
    /\ StartAccepted
    /\ ~settings.test_mode
    /\ InFlight({"start", "night_call"}) < MaxStarts
    /\ tasks' = Spawn(tasks, Task("start", "assign", None, None, FALSE))
    /\ lastOp' = NoOp
    /\ UNCHANGED <<phase, players, settings, round_number, nightVars,
                   mafia_skips_used, discussion_ended, day_votes, active_games,
                   menus>>

\* force_start_game (the startgame command) up to its first await (ctx.send).
force_start_game ==
    /\ StartAccepted
    /\ InFlight({"start", "night_call"}) < MaxStarts
    /\ tasks' = Spawn(tasks, Task("start", "assign", None, None, FALSE))
    /\ lastOp' = NoOp
    /\ UNCHANGED <<phase, players, settings, round_number, nightVars,
                   mafia_skips_used, discussion_ended, day_votes, active_games,
                   menus>>

\* start_button / force_start_game after that await: assign_roles(game), whose
\* role loops run before its first await; then the role DMs and
\* asyncio.sleep(3), after which the handler calls start_night_phase.
start_assign(t) ==
    /\ t \in Waiting
    /\ t.kind = "start"
    /\ t.pc = "assign"
    /\ \E player_list \in Shuffles(DOMAIN players) :
          players' = assign_roles(players, settings, player_list)
    /\ tasks' = Move(tasks, t, Task("night_call", "sleep", None, None, FALSE))
    /\ lastOp' = Op("assign_roles", None, None, "assigned")
    /\ UNCHANGED <<phase, settings, round_number, nightVars, mafia_skips_used,
                   discussion_ended, day_votes, active_games, menus>>

\* test_roles (the testroles command): assign_roles with no check of the phase.
test_roles ==
    /\ Registered
    /\ settings.test_mode
    /\ \E player_list \in Shuffles(DOMAIN players) :
          players' = assign_roles(players, settings, player_list)
    /\ lastOp' = Op("assign_roles", None, None, "assigned")
    /\ UNCHANGED <<phase, settings, round_number, nightVars, mafia_skips_used,
                   discussion_ended, day_votes, active_games, tasks, menus>>

\* test_start (the teststart command) up to its first await: when every role
\* is still CITIZEN it will assign roles after ctx.send, otherwise it goes
\* straight to ctx.send / asyncio.sleep(1) / start_night_phase.
test_start ==
    /\ Registered
    /\ settings.test_mode
    /\ InFlight({"start", "night_call"}) < MaxStarts
    /\ IF \A p \in DOMAIN players : players[p].role = CITIZEN
       THEN tasks' = Spawn(tasks, Task("start", "assign", None, None, FALSE))
       ELSE tasks' = Spawn(tasks, Task("night_call", "sleep", None, None, FALSE))
    /\ lastOp' = NoOp
    /\ UNCHANGED <<phase, players, settings, round_number, nightVars,
                   mafia_skips_used, discussion_ended, day_votes, active_games,
                   menus>>

\* ------------------------------------------------------------ ending a game
\* RegistrationView.end_button up to its first await: phase = ENDED; the
\* del active_games[guild_id] follows the awaits.
end_button ==
    /\ Registered
    /\ ~settings.test_mode
    /\ InFlight({"cleanup"}) < MaxStops
    /\ phase' = ENDED
    /\ tasks' = Spawn(tasks, Task("cleanup", "send", None, None, FALSE))
    /\ lastOp' = NoOp
    /\ UNCHANGED <<players, settings, round_number, nightVars, mafia_skips_used,
                   discussion_ended, day_votes, active_games, menus>>

\* end_current_game (the endgame command) up to its first await.
end_current_game ==
    /\ Registered
    /\ InFlight({"cleanup"}) < MaxStops
    /\ phase' = ENDED
    /\ tasks' = Spawn(tasks, Task("cleanup", "send", None, None, FALSE))
    /\ lastOp' = NoOp
    /\ UNCHANGED <<players, settings, round_number, nightVars, mafia_skips_used,
                   discussion_ended, day_votes, active_games, menus>>

\* The tail of end_button, end_current_game and end_game: after the awaits
\* (asyncio.sleep(30), delete_game_messages) the guild's entry is deleted.
remove_game(t) ==
    /\ t \in Waiting
    /\ t.kind = "cleanup"
    /\ active_games' = None
    /\ tasks' = Finish(tasks, t)
    /\ lastOp' = NoOp
    /\ UNCHANGED <<phase, players, settings, round_number, nightVars,
                   mafia_skips_used, discussion_ended, day_votes, menus>>

\* A message of end_button or end_current_game raises (registration_message
\* .edit, interaction.response.send_message, ctx.send): end_current_game is
\* left by the exception, end_button by its except branch; neither reaches
\* its del active_games[guild_id].
cleanup_fails(t) ==
    /\ t \in Waiting
    /\ t.kind = "cleanup"
    /\ t.pc = "send"
    /\ tasks' = Finish(tasks, t)
    /\ lastOp' = NoOp
    /\ UNCHANGED <<phase, players, settings, round_number, nightVars,
                   mafia_skips_used, discussion_ended, day_votes, active_games,
                   menus>>

\* Variant of GameInProgress in which the start commands never refuse.
GameInProgressIgnored == FALSE

\* guild_id in active_games and active_games[guild_id].phase != ENDED; the
\* later game, once created, is in progress.
GameInProgress ==
    \/ active_games = ThisGame /\ phase # ENDED
    \/ active_games = NewGame

\* The tail the later start commands share: refused while a game is in
\* progress, else create_game stores a new GameState under the guild; the
\* fields of this session are not touched.
StartLater(command) ==
    /\ IF GameInProgress
       THEN /\ lastOp' = Op(command, None, None, "rejected")
            /\ UNCHANGED active_games
       ELSE /\ active_games' = NewGame
            /\ lastOp' = Op(command, None, None, "created")
    /\ UNCHANGED <<phase, players, settings, round_number, nightVars,
                   mafia_skips_used, discussion_ended, day_votes, tasks, menus>>

\* start_mafia (the mafia command) issued after this session was created,
\* by a user in a voice channel.
start_mafia_later == StartLater("mafia")

\* test_mafia (the testmafia command) issued after this session was
\* created: the range check on num_players comes first.
test_mafia_later(num_players) ==
    /\ num_players >= 4
    /\ num_players <= 10
    /\ StartLater("testmafia")

\* force_stop_all_games (the forcestop command): phase = ENDED and the del,
\* with no await between them.
force_stop_all_games ==
    /\ Registered
    /\ phase' = ENDED
    /\ active_games' = None
    /\ lastOp' = NoOp
    /\ UNCHANGED <<players, settings, round_number, nightVars, mafia_skips_used,
                   discussion_ended, day_votes, tasks, menus>>


\* ------------------------------------------------------------ night: start
\* Variant of NextRound in which a night entry leaves the round as it is.
SameRound(r) == r

\* game.round_number += 1
NextRound(r) == r + 1

\* start_night_phase from its ENDED check to its first await
\* (send_game_message): the caller t has finished the sleep that precedes
\* the call.
\* Variant of EndedBeforeNight in which a night starts only from the
\* registration.
EndedBeforeNightOrStarted == phase # REGISTRATION

\* The check that opens start_night_phase: was the game stopped?
EndedBeforeNight == phase = ENDED

start_night_phase(t) ==
    /\ t \in Waiting
    /\ t.kind = "night_call"
    /\ IF EndedBeforeNight
       THEN /\ tasks' = Finish(tasks, t)
            /\ UNCHANGED <<phase, round_number, nightVars>>
       ELSE /\ round_number < MaxRounds
            /\ phase' = NIGHT
            /\ round_number' = NextRound(round_number)
            /\ mafia_votes' = EmptyMap
            /\ mafia_target' = None
            /\ doctor_save' = None
            /\ police_investigation' = None
            /\ night_actions_submitted' = {}
            /\ tasks' = Move(tasks, t, Task("night", "announce", None, None, FALSE))
            /\ UNCHANGED <<night_actions_expected, night_actions_received,
                           night_auto_end_triggered>>
    /\ lastOp' = NoOp
    /\ UNCHANGED <<players, settings, mafia_skips_used, discussion_ended,
                   day_votes, active_games, menus>>

\* isinstance(p.member, DummyMember)
Bots(ps, S) == {p \in S : ps[p].dummy}
Humans(ps, S) == {p \in S : ~ps[p].dummy}

\* The actors start_night_phase counts in night_actions_expected.
ExpectedActors(ps, s) ==
    LET actors == AliveWithRole(ps, MAFIA) \cup AliveWithRole(ps, DOCTOR)
                    \cup AliveWithRole(ps, POLICE)
    IN  IF s.test_mode THEN Humans(ps, actors) ELSE actors

\* MafiaTargetSelect.__init__: living non-mafia players, and the skip option
\* while skips remain.
MafiaOptions(ps, s, used) ==
    {p \in DOMAIN ps : ps[p].is_alive /\ ps[p].role # MAFIA}
        \cup (IF s.mafia_skip_kills - used > 0 THEN {SKIP_KILL} ELSE {})

\* DoctorSaveSelect.__init__: living players, without the doctor after a
\* self-save in the last round.
DoctorOptions(ps, doctor) ==
    {p \in DOMAIN ps : ps[p].is_alive
                        /\ ~(p = doctor /\ ps[doctor].doctor_self_save_used)}

\* PoliceInvestigateSelect.__init__: living players other than the officer.
PoliceOptions(ps, police) == {p \in DOMAIN ps : ps[p].is_alive /\ p # police}

\* The views a DM delivers, options[a] the choices of owner a:
\* DummyMember.send drops them.
SentMenus(kind, options) ==
    UNION {{<<kind, a, o>> : o \in options[a]} : a \in DOMAIN options}

\* start_night_phase after send_game_message: the counters are reset, the
\* expected actions counted, the mafia menus sent and, in test mode, the bot
\* mafia vote for one random living non-mafia player.
start_night_phase_init(t) ==
    /\ t \in Waiting
    /\ t.kind = "night"
    /\ t.pc = "announce"
    /\ night_auto_end_triggered' = FALSE
    /\ night_actions_expected' = Cardinality(ExpectedActors(players, settings))
    /\ LET alive_mafia == AliveWithRole(players, MAFIA)
           bot_mafia == IF settings.test_mode THEN Bots(players, alive_mafia) ELSE {}
           possible_targets ==
               {p \in DOMAIN players : players[p].is_alive /\ players[p].role # MAFIA}
           MOpts == [a \in Humans(players, alive_mafia) |->
                        MafiaOptions(players, settings, mafia_skips_used)]
       IN  /\ menus' = menus \cup SentMenus("mafia", MOpts)
           /\ IF bot_mafia # {} /\ possible_targets # {}
              THEN \E target \in possible_targets :
                      /\ mafia_votes' =
                            [a \in DOMAIN mafia_votes \cup bot_mafia |->
                                IF a \in bot_mafia THEN target ELSE mafia_votes[a]]
                      /\ night_actions_received' = Cardinality(bot_mafia)
              ELSE /\ night_actions_received' = 0
                   /\ UNCHANGED mafia_votes
    /\ tasks' = Move(tasks, t, Task("night", "menus", None, None, FALSE))
    /\ lastOp' = NoOp
    /\ UNCHANGED <<phase, players, settings, round_number, mafia_target,
                   doctor_save, police_investigation, night_actions_submitted,
                   mafia_skips_used, discussion_ended, day_votes, active_games>>

\* start_night_phase, the doctor and police menus and, in test mode, the bot
\* doctors and bot police acting at once (each adds one to
\* night_actions_received; the last bot's choice is the one kept).
start_night_phase_menus(t) ==
    /\ t \in Waiting
    /\ t.kind = "night"
    /\ t.pc = "menus"
    /\ LET alive_doctors == AliveWithRole(players, DOCTOR)
           alive_police == AliveWithRole(players, POLICE)
           bot_doctors == IF settings.test_mode THEN Bots(players, alive_doctors) ELSE {}
           bot_police == IF settings.test_mode THEN Bots(players, alive_police) ELSE {}
           possible_saves == AlivePlayers(players)
           DOpts == [a \in Humans(players, alive_doctors) |-> DoctorOptions(players, a)]
           POpts == [a \in Humans(players, alive_police) |-> PoliceOptions(players, a)]
           saves == IF bot_doctors # {} /\ possible_saves # {}
                    THEN possible_saves ELSE {doctor_save}
           investigations ==
               IF bot_police = {} THEN {police_investigation}
               ELSE UNION {PoliceOptions(players, b) : b \in bot_police}
                      \cup (IF \E b \in bot_police : PoliceOptions(players, b) = {}
                            THEN {police_investigation} ELSE {})
       IN  /\ menus' = menus
                \cup SentMenus("doctor", DOpts)
                \cup SentMenus("police", POpts)
           /\ doctor_save' \in saves
           /\ police_investigation' \in investigations
           /\ night_actions_received' = night_actions_received
                + (IF possible_saves # {} THEN Cardinality(bot_doctors) ELSE 0)
                + Cardinality({b \in bot_police : PoliceOptions(players, b) # {}})
    /\ tasks' = Move(tasks, t, Task("night", "poll", None, None, FALSE))
    /\ lastOp' = NoOp
    /\ UNCHANGED <<phase, players, settings, round_number, mafia_votes,
                   mafia_target, night_actions_expected,
                   night_auto_end_triggered, night_actions_submitted,
                   mafia_skips_used, discussion_ended, day_votes, active_games>>


\* ------------------------------------------------------------ night: resolution
\* Variant of TiedTargets in which any voted value may be drawn.
AnyVotedTarget(votes) == {votes[a] : a \in DOMAIN votes}

\* vote_counts[v] of process_night_results
VoteCount(votes, v) == Cardinality({a \in DOMAIN votes : votes[a] = v})

\* tied_targets of process_night_results: the values with the highest count
TiedTargets(votes) ==
    LET voted == {votes[a] : a \in DOMAIN votes}
    IN  {v \in voted : \A w \in voted : VoteCount(votes, w) <= VoteCount(votes, v)}

\* start_day_phase from its ENDED check to the first await: the phase becomes
\* DAY and the coroutine t goes on as the day announcement, was_saved kept.
\* chosen is the target process_night_results fixed for this morning; the
\* coroutine carries it for the properties and never reads it.
start_day_phase(t, was_saved, chosen) ==
    IF phase = ENDED
    THEN /\ tasks' = Finish(tasks, t)
         /\ UNCHANGED phase
    ELSE /\ phase' = DAY
         /\ tasks' = Move(tasks, t, Task("day", "mute", None, chosen, was_saved))

\* process_night_results run by coroutine t: the mafia ballots are counted,
\* a tie is broken at random, a skip uses one of the skip budget, and the day
\* starts.  In test mode the skip and the save are first announced, which
\* suspends the coroutine before start_day_phase.
process_night_results(t) ==
    \E top_vote \in (IF DOMAIN mafia_votes = {} THEN {None}
                     ELSE TiedTargets(mafia_votes)) :
        LET mafia_skipped == top_vote = SKIP_KILL
            target == IF DOMAIN mafia_votes = {} THEN mafia_target
                      ELSE IF mafia_skipped THEN None ELSE top_vote
            saved == target # None /\ target = doctor_save
        IN  /\ mafia_target' = target
            /\ mafia_skips_used' = mafia_skips_used + (IF mafia_skipped THEN 1 ELSE 0)
            /\ IF settings.test_mode /\ (mafia_skipped \/ saved)
               THEN /\ tasks' = Move(tasks, t, Task("day_call", "send", None, target, saved))
                    /\ UNCHANGED phase
               ELSE start_day_phase(t, saved, target)

\* The polling loop of start_night_phase finds every expected action
\* received and sets the latch; the grace delay follows.  The waiting
\* coroutine is marked with the round in which it was scheduled.
poll_trigger(t) ==
    /\ t \in Waiting
    /\ t.kind = "night"
    /\ t.pc = "poll"
    /\ phase = NIGHT
    /\ ~night_auto_end_triggered
    /\ night_actions_received >= night_actions_expected
    /\ night_auto_end_triggered' = TRUE
    /\ tasks' = Move(tasks, t, Task("night", "grace", round_number, None, FALSE))
    /\ lastOp' = NoOp
    /\ UNCHANGED <<phase, players, settings, round_number, mafia_votes,
                   mafia_target, doctor_save, police_investigation,
                   night_actions_expected, night_actions_received,
                   night_actions_submitted, mafia_skips_used, discussion_ended,
                   day_votes, active_games, menus>>

\* The polling loop leaves: the phase is no longer NIGHT or the latch is set.
poll_exit(t) ==
    /\ t \in Waiting
    /\ t.kind = "night"
    /\ t.pc = "poll"
    /\ ~(phase = NIGHT /\ ~night_auto_end_triggered)
    /\ tasks' = Finish(tasks, t)
    /\ lastOp' = NoOp
    /\ UNCHANGED <<phase, players, settings, round_number, nightVars,
                   mafia_skips_used, discussion_ended, day_votes,
                   active_games, menus>>

\* The end of a grace delay: the poller's sleep(10) or _delayed_night_end.
\* A session that ended meanwhile is left alone, else the night is resolved.
GraceTask(t) == (t.kind = "night" /\ t.pc = "grace") \/ t.kind = "delayed"

\* Variant of EndedAfterGrace in which the sleeper does not look at the phase.
EndedAfterGraceIgnored == FALSE

\* The check that follows asyncio.sleep(10): was the game stopped meanwhile?
EndedAfterGrace == phase = ENDED

grace_end(t) ==
    /\ t \in Waiting
    /\ GraceTask(t)
    /\ IF EndedAfterGrace
       THEN /\ tasks' = Finish(tasks, t)
            /\ UNCHANGED <<phase, mafia_target, mafia_skips_used>>
       ELSE process_night_results(t)
    /\ lastOp' = NoOp
    /\ UNCHANGED <<players, settings, round_number, mafia_votes, doctor_save,
                   police_investigation, night_actions_expected,
                   night_actions_received, night_auto_end_triggered,
                   night_actions_submitted, discussion_ended, day_votes,
                   active_games, menus>>

\* process_night_results resumes after its test-mode announcement and calls
\* start_day_phase.
start_day_phase_call(t) ==
    /\ t \in Waiting
    /\ t.kind = "day_call"
    /\ start_day_phase(t, t.flag, t.arg)
    /\ lastOp' = NoOp
    /\ UNCHANGED <<players, settings, round_number, nightVars, mafia_skips_used,
                   discussion_ended, day_votes, active_games, menus>>

\* start_day_phase after the voice updates: the night's victim, unless saved,
\* dies; the morning message is sent.
start_day_phase_announce(t) ==
    /\ t \in Waiting
    /\ t.kind = "day"
    /\ t.pc = "mute"
    /\ players' = IF mafia_target # None /\ ~t.flag
                  THEN [players EXCEPT ![mafia_target].is_alive = FALSE]
                  ELSE players
    /\ tasks' = Move(tasks, t, Task("day", "wincheck", None, None, FALSE))
    /\ lastOp' = Op("morning", None, t.arg, IF t.flag THEN "saved" ELSE "not_saved")
    /\ UNCHANGED <<phase, settings, round_number, nightVars, mafia_skips_used,
                   discussion_ended, day_votes, active_games, menus>>


\* ------------------------------------------------------------ night: confirmations
\* Variant of AlreadySubmitted in which the duplicate check always passes.
AlreadySubmittedIgnored(a) == FALSE

\* The duplicate check that opens each confirm handler.
AlreadySubmitted(a) == a \in night_actions_submitted

\* A confirm handler may run for a choice whose menu was delivered; handlers
\* that passed the duplicate check and wait for Discord are kept in tasks.
CanConfirm(kind, a, o) ==
    /\ <<kind, a, o>> \in menus
    /\ AlreadySubmitted(a) \/ InFlight({"confirm"}) < MaxConfirms

\* MafiaConfirmView.confirm up to its first await: the duplicate check, then
\* the ballot (SKIP_KILL for the skip option) is written.
MafiaConfirm(a, o) ==
    /\ CanConfirm("mafia", a, o)
    /\ IF AlreadySubmitted(a)
       THEN /\ lastOp' = Op("mafia_confirm", a, None, "already_locked")
            /\ UNCHANGED <<mafia_votes, tasks>>
       ELSE /\ mafia_votes' = Put(mafia_votes, a, o)
            /\ tasks' = Spawn(tasks, Task("confirm", "ack", a, None, FALSE))
            /\ lastOp' = Op("mafia_confirm", a, None, "confirmed")
    /\ UNCHANGED <<phase, players, settings, round_number, mafia_target,
                   doctor_save, police_investigation, night_actions_expected,
                   night_actions_received, night_auto_end_triggered,
                   night_actions_submitted, mafia_skips_used, discussion_ended,
                   day_votes, active_games, menus>>

\* DoctorConfirmView.confirm up to its first await: the duplicate check, then
\* doctor_save and the doctor's doctor_self_save_used are written.
DoctorConfirm(a, o) ==
    /\ CanConfirm("doctor", a, o)
    /\ IF AlreadySubmitted(a)
       THEN /\ lastOp' = Op("doctor_confirm", a, None, "already_locked")
            /\ UNCHANGED <<doctor_save, players, tasks>>
       ELSE /\ doctor_save' = o
            /\ players' = [players EXCEPT ![a].doctor_self_save_used = (o = a)]
            /\ tasks' = Spawn(tasks, Task("confirm", "ack", a, None, FALSE))
            /\ lastOp' = Op("doctor_confirm", a, None, "confirmed")
    /\ UNCHANGED <<phase, settings, round_number, mafia_votes, mafia_target,
                   police_investigation, night_actions_expected,
                   night_actions_received, night_auto_end_triggered,
                   night_actions_submitted, mafia_skips_used, discussion_ended,
                   day_votes, active_games, menus>>

\* PoliceConfirmView.confirm up to its first await: the duplicate check, then
\* police_investigation is written.
PoliceConfirm(a, o) ==
    /\ CanConfirm("police", a, o)
    /\ IF AlreadySubmitted(a)
       THEN /\ lastOp' = Op("police_confirm", a, None, "already_locked")
            /\ UNCHANGED <<police_investigation, tasks>>
       ELSE /\ police_investigation' = o
            /\ tasks' = Spawn(tasks, Task("confirm", "ack", a, None, FALSE))
            /\ lastOp' = Op("police_confirm", a, None, "confirmed")
    /\ UNCHANGED <<phase, players, settings, round_number, mafia_votes,
                   mafia_target, doctor_save, night_actions_expected,
                   night_actions_received, night_auto_end_triggered,
                   night_actions_submitted, mafia_skips_used, discussion_ended,
                   day_votes, active_games, menus>>

\* A confirm handler after interaction.response.edit_message returned: the
\* actor is added to night_actions_submitted and the counter goes up.
confirm_record(t) ==
    /\ t \in Waiting
    /\ t.kind = "confirm"
    /\ t.pc = "ack"
    /\ night_actions_submitted' = night_actions_submitted \cup {t.who}
    /\ night_actions_received' = night_actions_received + 1
    /\ tasks' = Move(tasks, t, Task("confirm", "check", t.who, None, FALSE))
    /\ lastOp' = NoOp
    /\ UNCHANGED <<phase, players, settings, round_number, mafia_votes,
                   mafia_target, doctor_save, police_investigation,
                   night_actions_expected, night_auto_end_triggered,
                   mafia_skips_used, discussion_ended, day_votes, active_games,
                   menus>>

\* interaction.response.edit_message raises (the interaction expired or was
\* already answered): the handler ends with its ballot written and nothing
\* else.
confirm_fails(t) ==
    /\ t \in Waiting
    /\ t.kind = "confirm"
    /\ t.pc = "ack"
    /\ tasks' = Finish(tasks, t)
    /\ lastOp' = NoOp
    /\ UNCHANGED <<phase, players, settings, round_number, nightVars,
                   mafia_skips_used, discussion_ended, day_votes, active_games,
                   menus>>

\* check_all_night_actions_done at the end of a confirm handler: when the
\* phase is NIGHT, the latch is clear and every expected action is in, the
\* latch is set and _delayed_night_end is scheduled.
check_all_night_actions_done(t) ==
    /\ t \in Waiting
    /\ t.kind = "confirm"
    /\ t.pc = "check"
    /\ IF phase = NIGHT /\ ~night_auto_end_triggered
            /\ night_actions_received >= night_actions_expected
       THEN /\ night_auto_end_triggered' = TRUE
            /\ tasks' = Move(tasks, t, Task("delayed", "sleep", round_number, None, FALSE))
       ELSE /\ tasks' = Finish(tasks, t)
            /\ UNCHANGED night_auto_end_triggered
    /\ lastOp' = NoOp
    /\ UNCHANGED <<phase, players, settings, round_number, mafia_votes,
                   mafia_target, doctor_save, police_investigation,
                   night_actions_expected, night_actions_received,
                   night_actions_submitted, mafia_skips_used, discussion_ended,
                   day_votes, active_games, menus>>


\* ------------------------------------------------------------ day
\* Variant of Winner in which the mafia must outnumber the living others.
WinnerOnMajority(ps) ==
    LET alive_mafia == Cardinality(AliveWithRole(ps, MAFIA))
        alive_citizens == Cardinality(AlivePlayers(ps)) - alive_mafia
    IN  IF alive_mafia = 0 THEN "citizens"
        ELSE IF alive_mafia > alive_citizens THEN "mafia"
        ELSE "nobody"

\* check_win_condition: the citizens win with no living mafia, the mafia
\* wins when it is at least as numerous as the living others.
Winner(ps) ==
    LET alive_mafia == Cardinality(AliveWithRole(ps, MAFIA))
        alive_citizens == Cardinality(AlivePlayers(ps)) - alive_mafia
    IN  IF alive_mafia = 0 THEN "citizens"
        ELSE IF alive_mafia >= alive_citizens THEN "mafia"
        ELSE "nobody"

\* end_game run by coroutine t up to its first await: the phase becomes
\* ENDED; the removal from active_games follows the result display.
end_game(t) ==
    /\ phase' = ENDED
    /\ tasks' = Move(tasks, t, Task("cleanup", "sleep", None, None, FALSE))

\* start_day_phase after the morning message: the win check; without a
\* winner the discussion opens, its view is sent and its timer started.
start_day_phase_discussion(t) ==
    /\ t \in Waiting
    /\ t.kind = "day"
    /\ t.pc = "wincheck"
    /\ IF Winner(players) # "nobody"
       THEN /\ end_game(t)
            /\ UNCHANGED <<discussion_ended, menus>>
       ELSE /\ discussion_ended' = FALSE
            /\ menus' = menus \cup {<<"discussion", None, None>>}
            /\ tasks' = Move(tasks, t, Task("timer", "tick", round_number, None, FALSE))
            /\ UNCHANGED phase
    /\ lastOp' = Op("win_check", None, None, Winner(players))
    /\ UNCHANGED <<players, settings, round_number, nightVars, mafia_skips_used,
                   day_votes, active_games>>

\* DiscussionEndView.start_timer at one of its ticks.  A timer of an earlier
\* round has seen discussion_ended long ago and is gone; the timer of this
\* round leaves when the discussion is over or the phase is not DAY, and at
\* expiry closes the discussion and calls start_voting_phase.
start_timer(t) ==
    /\ t \in Waiting
    /\ t.kind = "timer"
    /\ IF t.who # round_number \/ discussion_ended \/ phase # DAY
       THEN /\ tasks' = Finish(tasks, t)
            /\ UNCHANGED discussion_ended
       ELSE /\ discussion_ended' = TRUE
            /\ tasks' = Move(tasks, t, Task("vote_call", "edit", None, None, FALSE))
    /\ lastOp' = NoOp
    /\ UNCHANGED <<phase, players, settings, round_number, nightVars,
                   mafia_skips_used, day_votes, active_games, menus>>

\* Variant of VotingAlreadyStarted that looks at the phase only.
VotingAlreadyStartedPhaseOnly == phase # DAY

\* if self.game.phase != GamePhase.DAY or self.game.discussion_ended
VotingAlreadyStarted == phase # DAY \/ discussion_ended

\* DiscussionEndView.start_voting_button pressed by the host: refused unless
\* the phase is DAY and the discussion still open.
start_voting_button ==
    /\ <<"discussion", None, None>> \in menus
    /\ ~VotingAlreadyStarted
    /\ discussion_ended' = TRUE
    /\ tasks' = Spawn(tasks, Task("vote_call", "edit", None, None, FALSE))
    /\ lastOp' = NoOp
    /\ UNCHANGED <<phase, players, settings, round_number, nightVars,
                   mafia_skips_used, day_votes, active_games, menus>>

\* Variant of EndedBeforeVoting in which start_voting_phase does not look at
\* the phase.
EndedBeforeVotingIgnored == FALSE

\* The check that opens start_voting_phase: was the game stopped?
EndedBeforeVoting == phase = ENDED

\* start_voting_phase up to its first await: the ENDED check, then the phase
\* becomes VOTING and the ballots of the last round are dropped.
start_voting_phase(t) ==
    /\ t \in Waiting
    /\ t.kind = "vote_call"
    /\ IF EndedBeforeVoting
       THEN /\ tasks' = Finish(tasks, t)
            /\ UNCHANGED <<phase, day_votes>>
       ELSE /\ phase' = VOTING
            /\ day_votes' = EmptyMap
            /\ tasks' = Move(tasks, t, Task("voting", "send", None, None, FALSE))
    /\ lastOp' = NoOp
    /\ UNCHANGED <<players, settings, round_number, nightVars, mafia_skips_used,
                   discussion_ended, active_games, menus>>

\* The ballots the bots of a test game cast when the voting view is out:
\* each living bot skips or names a living player other than itself.
BotBallots(ps) ==
    LET alive_bots == Bots(ps, AlivePlayers(ps))
    IN  {f \in [alive_bots -> AlivePlayers(ps) \cup {None}] :
            \A b \in alive_bots : f[b] # b}

\* start_voting_phase after the voting view is sent: the buttons of the
\* living players and the skip button are out, the bots vote, and the
\* countdown starts with voting_time = game.settings.voting_time, elapsed = 0.
start_voting_phase_open(t) ==
    /\ t \in Waiting
    /\ t.kind = "voting"
    /\ t.pc = "send"
    /\ menus' = {m \in menus : m[1] # "vote"}
                    \cup {<<"vote", None, o>> : o \in AlivePlayers(players) \cup {None}}
    /\ IF settings.test_mode
       THEN \E f \in BotBallots(players) :
                day_votes' = [v \in DOMAIN day_votes \cup DOMAIN f |->
                                IF v \in DOMAIN f THEN f[v] ELSE day_votes[v]]
       ELSE UNCHANGED day_votes
    /\ tasks' = Move(tasks, t, Task("voting", "tick", settings.voting_time, 0, FALSE))
    /\ lastOp' = NoOp
    /\ UNCHANGED <<phase, players, settings, round_number, nightVars,
                   mafia_skips_used, discussion_ended, active_games>>


\* Variant of CountdownRuns in which the loop ends after its first wait.
CountdownRunsOnce(elapsed, voting_time) == elapsed < 1

\* while elapsed < voting_time
CountdownRuns(elapsed, voting_time) == elapsed < voting_time

\* wait_time = min(countdown_interval, voting_time - elapsed)
WaitTime(elapsed, voting_time) ==
    IF voting_time - elapsed < 10 THEN voting_time - elapsed ELSE 10

\* One pass of the countdown loop of start_voting_phase, the coroutine
\* holding voting_time (who) and elapsed (arg): while time remains a session
\* that ended is left, else the loop waits wait_time seconds; when the time
\* is up the final message and asyncio.sleep(2) follow.
countdown_tick(t) ==
    /\ t \in Waiting
    /\ t.kind = "voting"
    /\ t.pc = "tick"
    /\ IF ~CountdownRuns(t.arg, t.who)
       THEN tasks' = Move(tasks, t, Task("voting", "countdown", t.who, t.arg, FALSE))
       ELSE IF phase = ENDED
       THEN tasks' = Finish(tasks, t)
       ELSE tasks' = Move(tasks, t, Task("voting", "tick", t.who,
                                         t.arg + WaitTime(t.arg, t.who), FALSE))
    /\ lastOp' = NoOp
    /\ UNCHANGED <<phase, players, settings, round_number, nightVars,
                   mafia_skips_used, discussion_ended, day_votes, active_games,
                   menus>>


\* ------------------------------------------------------------ voting
\* A VotingView times out voting_time seconds after its last use: its
\* buttons work while the vote it belongs to is open or being tallied.
VotingViewAlive == \E t \in Waiting : t.kind \in {"voting", "tally"} /\ t.pc # "send"

\* Variant of StoreBallot in which a voter's first ballot stands.
KeepFirstBallot(votes, voter, target) ==
    IF voter \in DOMAIN votes THEN votes ELSE Put(votes, voter, target)

\* self.game.day_votes[interaction.user.id] = target_id (None for the skip)
StoreBallot(votes, voter, target) == Put(votes, voter, target)

\* VotingView.create_vote_callback(target_id) and VotingView.skip_callback
\* (target None) for the user voter: refused for users outside the game and
\* for the dead, else the ballot is stored over any earlier one.
vote_callback(voter, target) ==
    /\ VotingViewAlive
    /\ <<"vote", None, target>> \in menus
    /\ voter \in DOMAIN players => ~players[voter].dummy
    /\ IF voter \notin DOMAIN players
       THEN /\ lastOp' = Op("vote", voter, target, "not_in_game")
            /\ UNCHANGED day_votes
       ELSE IF ~players[voter].is_alive
       THEN /\ lastOp' = Op("vote", voter, target, "dead")
            /\ UNCHANGED day_votes
       ELSE /\ day_votes' = StoreBallot(day_votes, voter, target)
            /\ lastOp' = Op("vote", voter, target,
                            IF voter \in DOMAIN day_votes /\ day_votes[voter] # target
                            THEN "changed" ELSE "voted")
    /\ UNCHANGED <<phase, players, settings, round_number, nightVars,
                   mafia_skips_used, discussion_ended, active_games, tasks, menus>>

\* test_vote(target_name): in a test game during VOTING every living player
\* but the tester votes for the named living player, or skips.
test_vote(target) ==
    /\ Registered
    /\ settings.test_mode
    /\ phase = VOTING
    /\ target = None \/ target \in AlivePlayers(players)
    /\ day_votes' = [v \in DOMAIN day_votes \cup (AlivePlayers(players) \ {1}) |->
                        IF v \in AlivePlayers(players) \ {1} THEN target
                        ELSE day_votes[v]]
    /\ lastOp' = NoOp
    /\ UNCHANGED <<phase, players, settings, round_number, nightVars,
                   mafia_skips_used, discussion_ended, active_games, tasks, menus>>

\* vote_counts of process_voting_results: each living player counts once,
\* for the recorded target or, without a ballot, for skip (None).
BallotOf(votes, v) == IF v \in DOMAIN votes THEN votes[v] ELSE None

\* Variant of TallyCount that walks the recorded ballots, not the living.
TallyCountOverBallots(ps, votes, x) ==
    Cardinality({v \in DOMAIN votes : votes[v] = x})

TallyCount(ps, votes, x) ==
    Cardinality({v \in AlivePlayers(ps) : BallotOf(votes, v) = x})

\* non_skip_votes, skip_votes, max_votes and top_voted
NonSkipTargets(ps, votes) ==
    {BallotOf(votes, v) : v \in AlivePlayers(ps)} \ {None}
TopVoted(ps, votes) ==
    {x \in NonSkipTargets(ps, votes) :
        \A y \in NonSkipTargets(ps, votes) :
            TallyCount(ps, votes, y) <= TallyCount(ps, votes, x)}

\* Variant of SkipWins in which a skip count equal to the highest target
\* count is enough.
SkipWinsOnEqual(skip_votes, max_votes) == skip_votes >= max_votes

\* if skip_votes > max_votes: the vote is skipped
SkipWins(skip_votes, max_votes) == skip_votes > max_votes

\* Variant of TargetWins in which the single top target need not beat the
\* skip count.
TargetWinsOnEqual(top_voted, max_votes, skip_votes) ==
    Cardinality(top_voted) = 1 /\ max_votes >= skip_votes

\* elif len(top_voted) == 1 and max_votes > skip_votes: the target is out
TargetWins(top_voted, max_votes, skip_votes) ==
    Cardinality(top_voted) = 1 /\ max_votes > skip_votes

\* The branch process_voting_results takes: <<result, eliminated id>>.
VoteResult(ps, votes) ==
    LET skip_votes == TallyCount(ps, votes, None)
        top_voted == TopVoted(ps, votes)
        max_votes == TallyCount(ps, votes, CHOOSE x \in top_voted : TRUE)
    IN  IF NonSkipTargets(ps, votes) = {} THEN <<"everyone_skipped", None>>
        ELSE IF SkipWins(skip_votes, max_votes) THEN <<"skipped", None>>
        ELSE IF TargetWins(top_voted, max_votes, skip_votes)
             THEN <<"eliminated", CHOOSE x \in top_voted : TRUE>>
        ELSE <<"tie", None>>

\* The countdown of start_voting_phase is over: a session that ended is left
\* alone, else process_voting_results counts the ballots and the single top
\* target, if any, dies; the result message follows.
process_voting_results(t) ==
    /\ t \in Waiting
    /\ t.kind = "voting"
    /\ t.pc = "countdown"
    /\ IF phase = ENDED
       THEN /\ tasks' = Finish(tasks, t)
            /\ lastOp' = NoOp
            /\ UNCHANGED players
       ELSE LET r == VoteResult(players, day_votes)
            IN  /\ players' = IF r[1] = "eliminated"
                              THEN [players EXCEPT ![r[2]].is_alive = FALSE]
                              ELSE players
                /\ lastOp' = Op("tally", None, r[2], r[1])
                /\ tasks' = Move(tasks, t, Task("tally", "wincheck", None, None, FALSE))
    /\ UNCHANGED <<phase, settings, round_number, nightVars, mafia_skips_used,
                   discussion_ended, day_votes, active_games, menus>>

\* process_voting_results after the result message: the win check, then,
\* unless the session ended, the NextRoundView is sent.
process_voting_results_next(t) ==
    /\ t \in Waiting
    /\ t.kind = "tally"
    /\ IF Winner(players) # "nobody"
       THEN /\ end_game(t)
            /\ UNCHANGED menus
       ELSE /\ tasks' = Finish(tasks, t)
            /\ menus' = IF phase = ENDED THEN menus
                        ELSE menus \cup {<<"next", None, None>>}
            /\ UNCHANGED phase
    /\ lastOp' = Op("win_check", None, None, Winner(players))
    /\ UNCHANGED <<players, settings, round_number, nightVars, mafia_skips_used,
                   discussion_ended, day_votes, active_games>>

\* NextRoundView.start_night_button pressed by the host: refused when the
\* session ended, else start_night_phase is called after the button update.
start_night_button ==
    /\ <<"next", None, None>> \in menus
    /\ phase # ENDED
    /\ InFlight({"start", "night_call"}) < MaxStarts
    /\ round_number < MaxRounds
    /\ tasks' = Spawn(tasks, Task("night_call", "sleep", None, None, FALSE))
    /\ lastOp' = NoOp
    /\ UNCHANGED <<phase, players, settings, round_number, nightVars,
                   mafia_skips_used, discussion_ended, day_votes, active_games,
                   menus>>


\* ------------------------------------------------------------ settings commands
\* The tail every settings command shares: only settings may change.
SettingsOnly ==
    /\ lastOp' = NoOp
    /\ UNCHANGED <<phase, players, round_number, nightVars, mafia_skips_used,
                   discussion_ended, day_votes, active_games, tasks, menus>>

\* set_mafia_count (the setmafia command) for a registered session: a count
\* outside 1..5 is refused; the count is stored in REGISTRATION and, by the
\* else branch, in every other phase too.
set_mafia_count(count) ==
    /\ Registered
    /\ settings' = IF count < 1 \/ count > 5 THEN settings
                   ELSE [settings EXCEPT !.num_mafia = count]
    /\ SettingsOnly

\* set_doctor_count (the setdoctor command): 0..3, stored in every phase.
set_doctor_count(count) ==
    /\ Registered
    /\ settings' = IF count < 0 \/ count > 3 THEN settings
                   ELSE [settings EXCEPT !.num_doctor = count]
    /\ SettingsOnly

\* set_police_count (the setpolice command): 0..3, stored in every phase.
set_police_count(count) ==
    /\ Registered
    /\ settings' = IF count < 0 \/ count > 3 THEN settings
                   ELSE [settings EXCEPT !.num_police = count]
    /\ SettingsOnly

\* set_vote_time (the setvotetime command): 30..300, stored whenever the
\* guild has a session.
set_vote_time(seconds) ==
    /\ Registered
    /\ settings' = IF seconds < 30 \/ seconds > 300 THEN settings
                   ELSE [settings EXCEPT !.voting_time = seconds]
    /\ SettingsOnly

\* set_skip_kills (the setskips command): 0..5, stored whenever the guild
\* has a session.
set_skip_kills(count) ==
    /\ Registered
    /\ settings' = IF count < 0 \/ count > 5 THEN settings
                   ELSE [settings EXCEPT !.mafia_skip_kills = count]
    /\ SettingsOnly

\* test_skip_phase (the testskip command): in a test game both timers are
\* set to one second.
test_skip_phase ==
    /\ Registered
    /\ settings.test_mode
    /\ settings' = [settings EXCEPT !.voting_time = 1, !.discussion_time = 1]
    /\ SettingsOnly

\* create_game: a GameState with the default fields, in phase ph and with
\* settings s, is stored under the guild.
NewGameState(ph, s) ==
    /\ phase' = ph
    /\ players' = EmptyMap
    /\ settings' = s
    /\ round_number' = 0
    /\ mafia_votes' = EmptyMap
    /\ mafia_target' = None
    /\ doctor_save' = None
    /\ police_investigation' = None
    /\ night_actions_expected' = 0
    /\ night_actions_received' = 0
    /\ night_auto_end_triggered' = FALSE
    /\ night_actions_submitted' = {}
    /\ mafia_skips_used' = 0
    /\ discussion_ended' = FALSE
    /\ day_votes' = EmptyMap
    /\ active_games' = ThisGame
    /\ UNCHANGED <<tasks, menus>>

\* The tail the settings commands share when the guild has no session and
\* the value is in range: create_game stores a GameState, in its default
\* phase WAITING, and the value is written to its settings.
SettingsForNextGame(in_range, s) ==
    /\ active_games = None
    /\ IF in_range
       THEN NewGameState(WAITING, s)
       ELSE UNCHANGED <<phase, players, settings, round_number, nightVars,
                        mafia_skips_used, discussion_ended, day_votes,
                        active_games, tasks, menus>>
    /\ lastOp' = NoOp

\* set_mafia_count with no session under the guild.
set_mafia_count_idle(count) ==
    SettingsForNextGame(count >= 1 /\ count <= 5,
                        [GameSettings EXCEPT !.num_mafia = count])

\* set_doctor_count with no session under the guild.
set_doctor_count_idle(count) ==
    SettingsForNextGame(count >= 0 /\ count <= 3,
                        [GameSettings EXCEPT !.num_doctor = count])

\* set_police_count with no session under the guild.
set_police_count_idle(count) ==
    SettingsForNextGame(count >= 0 /\ count <= 3,
                        [GameSettings EXCEPT !.num_police = count])

\* set_vote_time with no session under the guild.
set_vote_time_idle(seconds) ==
    SettingsForNextGame(seconds >= 30 /\ seconds <= 300,
                        [GameSettings EXCEPT !.voting_time = seconds])

\* start_mafia (the mafia command) by a user in a voice channel, in a room
\* where no game has been played: refused when the guild has a session whose
\* phase is not ENDED, else create_game stores a new GameState and the
\* registration opens.
start_mafia_idle ==
    /\ active_games = None \/ (active_games = ThisGame /\ phase = WAITING)
    /\ IF GameInProgress
       THEN /\ lastOp' = Op("mafia", None, None, "rejected")
            /\ UNCHANGED <<phase, players, settings, round_number, nightVars,
                           mafia_skips_used, discussion_ended, day_votes,
                           active_games, tasks, menus>>
       ELSE /\ NewGameState(REGISTRATION, GameSettings)
            /\ lastOp' = Op("mafia", None, None, "created")


\* ------------------------------------------------------------ specifications
\* Registration, the start handlers and the role assignment, from a fresh
\* session to the entry into the first night.
NextReg ==
    \/ \E p \in Ids : join_button(p)
    \/ \E p \in Ids : leave_button(p)
    \/ start_button
    \/ force_start_game
    \/ test_roles
    \/ test_start
    \/ end_button
    \/ end_current_game
    \/ force_stop_all_games
    \/ \E t \in Waiting : start_assign(t)
    \/ \E t \in Waiting : start_night_phase(t)
    \/ \E t \in Waiting : remove_game(t)

SpecReg == Init /\ [][NextReg]_vars

\* The roster after MaxPlayers people joined.
FullRoster == [p \in Ids |-> Player(FALSE)]

\* The shuffle that leaves a roster of n in the order of the ids.
InOrder(n) == [i \in 1 .. n |-> i]

\* A game of MaxPlayers people whose Start was accepted: the roles are
\* assigned (mafia 1, doctor 2, police 3, citizen 4) and the start handler
\* sleeps before it calls start_night_phase.
StartedGame ==
    FreshSession(assign_roles(FullRoster, GameSettings, InOrder(MaxPlayers)),
                 GameSettings,
                 SetToBag({Task("night_call", "sleep", None, None, FALSE)}))

\* The options the actors of the model pick in their menus: the skip, the
\* doctor and the citizen.
NightChoices == {SKIP_KILL, 2, 4}

\* The first night of a game of people and the morning after, every handler
\* interleaved, with the stop commands.
NextNight ==
    \/ \E a \in Ids, o \in NightChoices : MafiaConfirm(a, o)
    \/ \E a \in Ids, o \in NightChoices : DoctorConfirm(a, o)
    \/ \E a \in Ids, o \in NightChoices : PoliceConfirm(a, o)
    \/ \E t \in Waiting : start_night_phase(t)
    \/ \E t \in Waiting : start_night_phase_init(t)
    \/ \E t \in Waiting : start_night_phase_menus(t)
    \/ \E t \in Waiting : poll_trigger(t)
    \/ \E t \in Waiting : poll_exit(t)
    \/ \E t \in Waiting : grace_end(t)
    \/ \E t \in Waiting : confirm_record(t)
    \/ \E t \in Waiting : confirm_fails(t)
    \/ \E t \in Waiting : check_all_night_actions_done(t)
    \/ \E t \in Waiting : start_day_phase_announce(t)
    \/ \E t \in Waiting : start_day_phase_discussion(t)
    \/ \E t \in Waiting : remove_game(t)
    \/ end_current_game
    \/ force_stop_all_games

SpecNight == StartedGame /\ [][NextNight]_vars

\* The one option of the actors in the round of SpecLife: the citizen.
LifeChoices == {4}

\* One round of a game of people from the start to the tally, every actor
\* choosing the citizen and nobody voting.
NextLife ==
    \/ \E a \in Ids, o \in LifeChoices : MafiaConfirm(a, o)
    \/ \E a \in Ids, o \in LifeChoices : DoctorConfirm(a, o)
    \/ \E a \in Ids, o \in LifeChoices : PoliceConfirm(a, o)
    \/ \E t \in Waiting : start_night_phase(t)
    \/ \E t \in Waiting : start_night_phase_init(t)
    \/ \E t \in Waiting : start_night_phase_menus(t)
    \/ \E t \in Waiting : poll_trigger(t)
    \/ \E t \in Waiting : poll_exit(t)
    \/ \E t \in Waiting : grace_end(t)
    \/ \E t \in Waiting : confirm_record(t)
    \/ \E t \in Waiting : confirm_fails(t)
    \/ \E t \in Waiting : check_all_night_actions_done(t)
    \/ \E t \in Waiting : start_day_phase_announce(t)
    \/ \E t \in Waiting : start_day_phase_discussion(t)
    \/ \E t \in Waiting : remove_game(t)
    \/ \E t \in Waiting : start_timer(t)
    \/ \E t \in Waiting : start_voting_phase(t)
    \/ \E t \in Waiting : start_voting_phase_open(t)
    \/ \E t \in Waiting : countdown_tick(t)
    \/ \E t \in Waiting : process_voting_results(t)
    \/ \E t \in Waiting : process_voting_results_next(t)
    \/ start_voting_button
    \/ end_current_game
    \/ force_stop_all_games

SpecLife == StartedGame /\ [][NextLife]_vars

\* The shuffle that puts the tester (1) last: every role goes to a bot.
TesterLast(n) == [i \in 1 .. n |-> IF i = n THEN 1 ELSE i + 1]

\* A test game of MaxPlayers players after testroles and teststart in which
\* the tester is the citizen and the bots play every role.
StartedTestGame ==
    FreshSession(assign_roles(TestRoster(MaxPlayers), TestSettings, TesterLast(MaxPlayers)),
                 TestSettings,
                 SetToBag({Task("night_call", "sleep", None, None, FALSE)}))

\* The nights of that test game, teststart repeated at any time.
NextTest ==
    \/ test_start
    \/ \E t \in Waiting : start_night_phase(t)
    \/ \E t \in Waiting : start_night_phase_init(t)
    \/ \E t \in Waiting : start_night_phase_menus(t)
    \/ \E t \in Waiting : poll_trigger(t)
    \/ \E t \in Waiting : poll_exit(t)
    \/ \E t \in Waiting : grace_end(t)
    \/ \E t \in Waiting : start_day_phase_announce(t)
    \/ \E t \in Waiting : start_day_phase_discussion(t)
    \/ \E t \in Waiting : remove_game(t)
    \/ \E t \in Waiting : start_day_phase_call(t)
    \/ end_current_game
    \/ force_stop_all_games

SpecTest == StartedTestGame /\ [][NextTest]_vars


\* The session of a game of n people the morning after a first night in
\* which the mafia (1) skipped the kill, the doctor (2) saved player 4 and
\* the officer (3) looked at player 4: nobody died.  ph, ended, votes, ts
\* and views give the phase, discussion_ended, the day ballots, the waiting
\* coroutines and the views sent since the morning.
QuietNight(n, ph, ended, votes, ts, views) ==
    LET ps == assign_roles([p \in 1 .. n |-> Player(FALSE)], GameSettings, InOrder(n))
        MOpts == [a \in {1} |-> MafiaOptions(ps, GameSettings, 0)]
        DOpts == [a \in {2} |-> DoctorOptions(ps, a)]
        POpts == [a \in {3} |-> PoliceOptions(ps, a)]
    IN  /\ phase = ph
        /\ players = ps
        /\ settings = GameSettings
        /\ round_number = 1
        /\ mafia_votes = [a \in {1} |-> SKIP_KILL]
        /\ mafia_target = None
        /\ doctor_save = 4
        /\ police_investigation = 4
        /\ night_actions_expected = 3
        /\ night_actions_received = 3
        /\ night_auto_end_triggered = TRUE
        /\ night_actions_submitted = {1, 2, 3}
        /\ mafia_skips_used = 1
        /\ discussion_ended = ended
        /\ day_votes = votes
        /\ active_games = ThisGame
        /\ tasks = ts
        /\ menus = SentMenus("mafia", MOpts) \cup SentMenus("doctor", DOpts)
                      \cup SentMenus("police", POpts) \cup views
        /\ lastOp = NoOp

\* The discussion of that morning has just opened.
DiscussionOpen ==
    QuietNight(MaxPlayers, DAY, FALSE, EmptyMap,
               SetToBag({Task("timer", "tick", 1, None, FALSE)}),
               {<<"discussion", None, None>>})

\* The buttons the voters of the model press: the skip, the mafia and the
\* citizen.
DayChoices == {None, 1, 4}

\* The day of a game of people from the discussion to the next night, every
\* voter free to vote and to vote again, with the stop commands.
NextVote ==
    \/ \E v \in Ids, x \in DayChoices : vote_callback(v, x)
    \/ start_voting_button
    \/ start_night_button
    \/ end_current_game
    \/ force_stop_all_games
    \/ \E t \in Waiting : start_timer(t)
    \/ \E t \in Waiting : start_voting_phase(t)
    \/ \E t \in Waiting : start_voting_phase_open(t)
    \/ \E t \in Waiting : countdown_tick(t)
    \/ \E t \in Waiting : process_voting_results(t)
    \/ \E t \in Waiting : process_voting_results_next(t)
    \/ \E t \in Waiting : start_night_phase(t)
    \/ \E t \in Waiting : remove_game(t)

SpecVote == DiscussionOpen /\ [][NextVote]_vars

\* The ballots of the tally inputs: each of n voters names player 1 or 2,
\* skips, or has not voted.
TallyChoices == {None, 1, 2}
Ballots(n) == UNION {[S -> TallyChoices] : S \in SUBSET (1 .. n)}

\* The countdown of the first vote of a game of n people is over.
CountdownOver(n, votes) ==
    QuietNight(n, VOTING, TRUE, votes,
               SetToBag({Task("voting", "countdown", GameSettings.voting_time,
                              GameSettings.voting_time, FALSE)}),
               {<<"discussion", None, None>>}
                   \cup {<<"vote", None, o>> : o \in (1 .. n) \cup {None}})

InitTally == \E n \in MaxPlayers .. MaxVoters : \E votes \in Ballots(n) : CountdownOver(n, votes)

\* The tally of every such vote, the win check and the end of a won game.
NextTally ==
    \/ \E t \in Waiting : process_voting_results(t)
    \/ \E t \in Waiting : process_voting_results_next(t)
    \/ \E t \in Waiting : remove_game(t)

SpecTally == InitTally /\ [][NextTally]_vars

\* The countdown of the first vote of a game of people is over, with any
\* ballots.
InitAfterTally == \E votes \in Ballots(MaxPlayers) : CountdownOver(MaxPlayers, votes)

\* The tally, the win check, the host's Start Night button and the start of
\* the next night.
NextAfterTally ==
    \/ \E t \in Waiting : process_voting_results(t)
    \/ \E t \in Waiting : process_voting_results_next(t)
    \/ start_night_button
    \/ \E t \in Waiting : start_night_phase(t)
    \/ \E t \in Waiting : remove_game(t)

\* The event loop resumes every suspended coroutine; whether the host
\* presses Start Night is not up to the program.
SpecAfterTallyFair ==
    /\ InitAfterTally
    /\ [][NextAfterTally]_vars
    /\ WF_vars(\E t \in Waiting : process_voting_results(t))
    /\ WF_vars(\E t \in Waiting : process_voting_results_next(t))
    /\ WF_vars(\E t \in Waiting : start_night_phase(t))
    /\ WF_vars(\E t \in Waiting : remove_game(t))

\* The role counts the host can configure during registration (mafia 1-5,
\* doctors 0-3, police 0-3), up to the bounds.
RoleSettings ==
    {[GameSettings EXCEPT !.num_mafia = m, !.num_doctor = d, !.num_police = p] :
        m \in 1 .. MaxMafia, d \in 0 .. MaxDoctor, p \in 0 .. MaxPolice}

\* The roster of a game of n people with the roles of settings s dealt in the
\* order of the ids, of whom exactly those of A are alive.
Survivors(n, s, A) ==
    LET dealt == assign_roles([p \in 1 .. n |-> Player(FALSE)], s, InOrder(n))
    IN  [p \in 1 .. n |-> [dealt[p] EXCEPT !.is_alive = (p \in A)]]

\* The rosters a win check can meet: at most one participant died since the
\* game started or since the last check, which found no winner.
CheckedRosters(n, s) ==
    {Survivors(n, s, A) : A \in
        {B \in SUBSET (1 .. n) :
            \E q \in 1 .. n :
                \/ B \cup {q} = 1 .. n
                \/ Winner(Survivors(n, s, B \cup {q})) = "nobody"}}

\* A session of a later round in phase ph whose coroutine ts is about to run
\* check_win_condition on the roster ps.
WinCheckDue(ps, s, ph, ts) ==
    /\ phase = ph
    /\ players = ps
    /\ settings = s
    /\ round_number = MaxRounds
    /\ mafia_votes = EmptyMap
    /\ mafia_target = None
    /\ doctor_save = None
    /\ police_investigation = None
    /\ night_actions_expected = 0
    /\ night_actions_received = 0
    /\ night_auto_end_triggered = TRUE
    /\ night_actions_submitted = {}
    /\ mafia_skips_used = 0
    /\ discussion_ended = (ph = VOTING)
    /\ day_votes = EmptyMap
    /\ active_games = ThisGame
    /\ tasks = SetToBag({ts})
    /\ menus = {}
    /\ lastOp = NoOp

InitWin ==
    \E n \in MaxPlayers .. MaxVoters :
        \E s \in {r \in RoleSettings : min_players(r) <= n} :
            \E ps \in CheckedRosters(n, s) :
                \/ WinCheckDue(ps, s, DAY, Task("day", "wincheck", None, None, FALSE))
                \/ WinCheckDue(ps, s, VOTING, Task("tally", "wincheck", None, None, FALSE))

\* The win check of the morning and of the tally on every such roster.
NextWin ==
    \/ \E t \in Waiting : start_day_phase_discussion(t)
    \/ \E t \in Waiting : process_voting_results_next(t)
    \/ \E t \in Waiting : remove_game(t)

SpecWin == InitWin /\ [][NextWin]_vars

\* The role counts of a game in which everyone but one is mafia.
MafiaHeavy ==
    [GameSettings EXCEPT !.num_mafia = MaxPlayers - 1, !.num_doctor = 0,
                         !.num_police = 0]

\* A game of MaxPlayers people with those settings whose Start was accepted:
\* the last player is the citizen, the others are the mafia.
StartedMafiaGame ==
    FreshSession(assign_roles(FullRoster, MafiaHeavy, InOrder(MaxPlayers)),
                 MafiaHeavy,
                 SetToBag({Task("night_call", "sleep", None, None, FALSE)}))

\* The options the mafia of that game pick: the skip and the citizen.
MafiaChoices == {SKIP_KILL, MaxPlayers}

\* The first night of that game and the morning after.
NextMafia ==
    \/ \E a \in Ids, o \in MafiaChoices : MafiaConfirm(a, o)
    \/ \E t \in Waiting : start_night_phase(t)
    \/ \E t \in Waiting : start_night_phase_init(t)
    \/ \E t \in Waiting : start_night_phase_menus(t)
    \/ \E t \in Waiting : poll_trigger(t)
    \/ \E t \in Waiting : poll_exit(t)
    \/ \E t \in Waiting : grace_end(t)
    \/ \E t \in Waiting : confirm_record(t)
    \/ \E t \in Waiting : confirm_fails(t)
    \/ \E t \in Waiting : check_all_night_actions_done(t)
    \/ \E t \in Waiting : start_day_phase_announce(t)
    \/ \E t \in Waiting : start_day_phase_discussion(t)
    \/ \E t \in Waiting : remove_game(t)

SpecMafia == StartedMafiaGame /\ [][NextMafia]_vars

\* A registration of n people with the role counts s whose Start has just
\* been accepted: the handler is about to call assign_roles.
StartPressed(n, s) ==
    FreshSession([p \in 1 .. n |-> Player(FALSE)], s,
                 SetToBag({Task("start", "assign", None, None, FALSE)}))

InitRoles ==
    \E n \in MaxPlayers .. MaxVoters :
        \E s \in {r \in RoleSettings : min_players(r) <= n} : StartPressed(n, s)

\* The role assignment of every such game, every shuffle, and the entry
\* into the first night.
NextRoles ==
    \/ \E t \in Waiting : start_assign(t)
    \/ \E t \in Waiting : start_night_phase(t)

SpecRoles == InitRoles /\ [][NextRoles]_vars

\* A test game of MaxPlayers players after testroles and teststart, the
\* roles dealt by any shuffle: the tester may hold one.
DealtTestGame ==
    \E player_list \in Shuffles(1 .. MaxPlayers) :
        FreshSession(assign_roles(TestRoster(MaxPlayers), TestSettings, player_list),
                     TestSettings,
                     SetToBag({Task("night_call", "sleep", None, None, FALSE)}))

\* The first night of that test game and the morning after: the bots act
\* by themselves, the tester confirms in the menus received.
NextActor ==
    \/ \E a \in Ids, o \in NightChoices : MafiaConfirm(a, o)
    \/ \E a \in Ids, o \in NightChoices : DoctorConfirm(a, o)
    \/ \E a \in Ids, o \in NightChoices : PoliceConfirm(a, o)
    \/ \E t \in Waiting : start_night_phase(t)
    \/ \E t \in Waiting : start_night_phase_init(t)
    \/ \E t \in Waiting : start_night_phase_menus(t)
    \/ \E t \in Waiting : poll_trigger(t)
    \/ \E t \in Waiting : poll_exit(t)
    \/ \E t \in Waiting : grace_end(t)
    \/ \E t \in Waiting : confirm_record(t)
    \/ \E t \in Waiting : confirm_fails(t)
    \/ \E t \in Waiting : check_all_night_actions_done(t)
    \/ \E t \in Waiting : start_day_phase_call(t)
    \/ \E t \in Waiting : start_day_phase_announce(t)
    \/ \E t \in Waiting : start_day_phase_discussion(t)

SpecActor == DealtTestGame /\ [][NextActor]_vars

\* A game of MaxPlayers people after a first round in which the mafia (1)
\* killed the doctor (2), the doctor saved player 4, the officer (3) looked
\* at player 4 and nobody voted: the host has pressed Start Night and the
\* handler is about to call start_night_phase.  The menus of the first night
\* are still in the DMs of their owners.
SecondNightDue ==
    LET dealt == assign_roles(FullRoster, GameSettings, InOrder(MaxPlayers))
        MOpts == [a \in {1} |-> MafiaOptions(dealt, GameSettings, 0)]
        DOpts == [a \in {2} |-> DoctorOptions(dealt, a)]
        POpts == [a \in {3} |-> PoliceOptions(dealt, a)]
        ps == [dealt EXCEPT ![2].is_alive = FALSE]
    IN  /\ phase = VOTING
        /\ players = ps
        /\ settings = GameSettings
        /\ round_number = 1
        /\ mafia_votes = [a \in {1} |-> 2]
        /\ mafia_target = 2
        /\ doctor_save = 4
        /\ police_investigation = 4
        /\ night_actions_expected = 3
        /\ night_actions_received = 3
        /\ night_auto_end_triggered = TRUE
        /\ night_actions_submitted = {1, 2, 3}
        /\ mafia_skips_used = 0
        /\ discussion_ended = TRUE
        /\ day_votes = EmptyMap
        /\ active_games = ThisGame
        /\ tasks = SetToBag({Task("night_call", "sleep", None, None, FALSE)})
        /\ menus = SentMenus("mafia", MOpts) \cup SentMenus("doctor", DOpts)
                      \cup SentMenus("police", POpts)
                      \cup {<<"discussion", None, None>>, <<"next", None, None>>}
                      \cup {<<"vote", None, o>> : o \in AlivePlayers(ps) \cup {None}}
        /\ lastOp = NoOp

\* The options picked in the menus of that night: the dead doctor and the
\* citizen.
SecondChoices == {2, 4}

\* The second night of that game and the morning after, the dead doctor
\* still able to use the menu of the first night.
NextSecond ==
    \/ \E a \in Ids, o \in SecondChoices : MafiaConfirm(a, o)
    \/ \E a \in Ids, o \in SecondChoices : DoctorConfirm(a, o)
    \/ \E a \in Ids, o \in SecondChoices : PoliceConfirm(a, o)
    \/ \E t \in Waiting : start_night_phase(t)
    \/ \E t \in Waiting : start_night_phase_init(t)
    \/ \E t \in Waiting : start_night_phase_menus(t)
    \/ \E t \in Waiting : poll_trigger(t)
    \/ \E t \in Waiting : poll_exit(t)
    \/ \E t \in Waiting : grace_end(t)
    \/ \E t \in Waiting : confirm_record(t)
    \/ \E t \in Waiting : confirm_fails(t)
    \/ \E t \in Waiting : check_all_night_actions_done(t)
    \/ \E t \in Waiting : start_day_phase_announce(t)
    \/ \E t \in Waiting : start_day_phase_discussion(t)
    \/ \E t \in Waiting : remove_game(t)

SpecSecond == SecondNightDue /\ [][NextSecond]_vars

\* The event loop resumes every suspended coroutine of that night: the
\* start of the night, the polling loop, the grace delay, the confirm
\* handlers after their acknowledgment and the morning.  Whether a player
\* confirms and whether an acknowledgment raises is not up to the program.
SpecSecondFair ==
    /\ SpecSecond
    /\ WF_vars(\E t \in Waiting : start_night_phase(t))
    /\ WF_vars(\E t \in Waiting : start_night_phase_init(t))
    /\ WF_vars(\E t \in Waiting : start_night_phase_menus(t))
    /\ WF_vars(\E t \in Waiting : poll_trigger(t))
    /\ WF_vars(\E t \in Waiting : grace_end(t))
    /\ WF_vars(\E t \in Waiting : confirm_record(t))
    /\ WF_vars(\E t \in Waiting : check_all_night_actions_done(t))
    /\ WF_vars(\E t \in Waiting : start_day_phase_announce(t))

\* The values the administrators of the model type into the settings
\* commands: one below each range and the smallest accepted ones.
MafiaCounts == 0 .. MaxMafia
DoctorCounts == 0 .. MaxDoctor
PoliceCounts == 0 .. MaxPolice
VoteTimes == {29, 30, 60}
SkipCounts == {0, 1, 6}

\* A started game, of people or a test game, up to the menus of its first
\* night, with the settings commands arriving at any time.
NextSettings ==
    \/ \E c \in MafiaCounts : set_mafia_count(c)
    \/ \E c \in DoctorCounts : set_doctor_count(c)
    \/ \E c \in PoliceCounts : set_police_count(c)
    \/ \E s \in VoteTimes : set_vote_time(s)
    \/ \E c \in SkipCounts : set_skip_kills(c)
    \/ test_skip_phase
    \/ \E t \in Waiting : start_night_phase(t)
    \/ \E t \in Waiting : start_night_phase_init(t)
    \/ \E t \in Waiting : start_night_phase_menus(t)

SpecSettings == (StartedGame \/ StartedTestGame) /\ [][NextSettings]_vars

\* A game of MaxPlayers people after a first round in which the mafia (1)
\* skipped the kill, the doctor (2) saved themself, the officer (3) looked
\* at player 4 and nobody voted: nobody died, the one skip of the budget is
\* used, the doctor's doctor_self_save_used is set, the host has pressed
\* Start Night and the handler is about to call start_night_phase.  The
\* menus of the first night are still in the DMs of their owners.
ThriftyNightOver ==
    LET dealt == assign_roles(FullRoster, GameSettings, InOrder(MaxPlayers))
        MOpts == [a \in {1} |-> MafiaOptions(dealt, GameSettings, 0)]
        DOpts == [a \in {2} |-> DoctorOptions(dealt, a)]
        POpts == [a \in {3} |-> PoliceOptions(dealt, a)]
        ps == [dealt EXCEPT ![2].doctor_self_save_used = TRUE]
    IN  /\ phase = VOTING
        /\ players = ps
        /\ settings = GameSettings
        /\ round_number = 1
        /\ mafia_votes = [a \in {1} |-> SKIP_KILL]
        /\ mafia_target = None
        /\ doctor_save = 2
        /\ police_investigation = 4
        /\ night_actions_expected = 3
        /\ night_actions_received = 3
        /\ night_auto_end_triggered = TRUE
        /\ night_actions_submitted = {1, 2, 3}
        /\ mafia_skips_used = 1
        /\ discussion_ended = TRUE
        /\ day_votes = EmptyMap
        /\ active_games = ThisGame
        /\ tasks = SetToBag({Task("night_call", "sleep", None, None, FALSE)})
        /\ menus = SentMenus("mafia", MOpts) \cup SentMenus("doctor", DOpts)
                      \cup SentMenus("police", POpts)
                      \cup {<<"discussion", None, None>>, <<"next", None, None>>}
                      \cup {<<"vote", None, o>> : o \in AlivePlayers(ps) \cup {None}}
        /\ lastOp = NoOp

\* The options picked in the menus of that night: the skip, the doctor and
\* the citizen.
ThriftyChoices == {SKIP_KILL, 2, 4}

\* The second night of that game and the morning after, the menus of both
\* nights in use.
NextThrifty ==
    \/ \E a \in Ids, o \in ThriftyChoices : MafiaConfirm(a, o)
    \/ \E a \in Ids, o \in ThriftyChoices : DoctorConfirm(a, o)
    \/ \E a \in Ids, o \in ThriftyChoices : PoliceConfirm(a, o)
    \/ \E t \in Waiting : start_night_phase(t)
    \/ \E t \in Waiting : start_night_phase_init(t)
    \/ \E t \in Waiting : start_night_phase_menus(t)
    \/ \E t \in Waiting : poll_trigger(t)
    \/ \E t \in Waiting : poll_exit(t)
    \/ \E t \in Waiting : grace_end(t)
    \/ \E t \in Waiting : confirm_record(t)
    \/ \E t \in Waiting : confirm_fails(t)
    \/ \E t \in Waiting : check_all_night_actions_done(t)
    \/ \E t \in Waiting : start_day_phase_announce(t)
    \/ \E t \in Waiting : start_day_phase_discussion(t)

SpecThrifty == ThriftyNightOver /\ [][NextThrifty]_vars

\* The countdown of a vote of a game of MaxPlayers people is over; the
\* participants in dead have died, whether or not a ballot of theirs is
\* in day_votes.
CountdownOverWithDead(dead, votes) ==
    LET dealt == assign_roles(FullRoster, GameSettings, InOrder(MaxPlayers))
        ps == [p \in DOMAIN dealt |-> [dealt[p] EXCEPT !.is_alive = p \notin dead]]
    IN  /\ phase = VOTING
        /\ players = ps
        /\ settings = GameSettings
        /\ round_number = 1
        /\ mafia_votes = EmptyMap
        /\ mafia_target = None
        /\ doctor_save = None
        /\ police_investigation = None
        /\ night_actions_expected = 3
        /\ night_actions_received = 0
        /\ night_auto_end_triggered = TRUE
        /\ night_actions_submitted = {}
        /\ mafia_skips_used = 0
        /\ discussion_ended = TRUE
        /\ day_votes = votes
        /\ active_games = ThisGame
        /\ tasks = SetToBag({Task("voting", "countdown", GameSettings.voting_time,
                                  GameSettings.voting_time, FALSE)})
        /\ menus = {<<"discussion", None, None>>}
                      \cup {<<"vote", None, o>> : o \in Ids \cup {None}}
        /\ lastOp = NoOp

\* Every set of dead among the police (3) and the citizen (4), every set of
\* ballots.
InitCount ==
    \E dead \in SUBSET {3, 4} : \E votes \in Ballots(MaxPlayers) :
        CountdownOverWithDead(dead, votes)

\* The tally of every such vote.
NextCount ==
    \/ \E t \in Waiting : process_voting_results(t)
    \/ \E t \in Waiting : process_voting_results_next(t)
    \/ \E t \in Waiting : remove_game(t)

SpecCount == InitCount /\ [][NextCount]_vars

\* A game of MaxPlayers people with the default settings in a later round,
\* about to run the win check of the morning or of the tally.
InitEnd ==
    \E ps \in CheckedRosters(MaxPlayers, GameSettings) :
        \/ WinCheckDue(ps, GameSettings, DAY, Task("day", "wincheck", None, None, FALSE))
        \/ WinCheckDue(ps, GameSettings, VOTING, Task("tally", "wincheck", None, None, FALSE))

\* The sizes typed into the later testmafia command.
LaterSizes == {4, 6}

\* The ways a session ends: a win, the Exit button, endgame and forcestop,
\* and its removal, with start commands for a later game at any time.
NextEnd ==
    \/ \E t \in Waiting : start_day_phase_discussion(t)
    \/ \E t \in Waiting : process_voting_results_next(t)
    \/ \E t \in Waiting : start_timer(t)
    \/ end_button
    \/ end_current_game
    \/ force_stop_all_games
    \/ start_mafia_later
    \/ \E n \in LaterSizes : test_mafia_later(n)
    \/ \E t \in Waiting : cleanup_fails(t)
    \/ \E t \in Waiting : remove_game(t)

SpecEnd == InitEnd /\ [][NextEnd]_vars

\* The event loop resumes every suspended coroutine: the win checks, the
\* discussion timer and the cleanups run.  Whether a message raises is not
\* up to the program.
SpecEndFair ==
    /\ SpecEnd
    /\ WF_vars(\E t \in Waiting : start_day_phase_discussion(t))
    /\ WF_vars(\E t \in Waiting : process_voting_results_next(t))
    /\ WF_vars(\E t \in Waiting : start_timer(t))
    /\ WF_vars(\E t \in Waiting : remove_game(t))

\* The role settings of a game with two doctors and no police.
TwoDoctorSettings == [GameSettings EXCEPT !.num_doctor = 2, !.num_police = 0]

\* A game of MaxPlayers people with those settings whose Start was accepted:
\* mafia 1, doctors 2 and 3, citizen 4.
StartedTwoDoctorGame ==
    FreshSession(assign_roles(FullRoster, TwoDoctorSettings, InOrder(MaxPlayers)),
                 TwoDoctorSettings,
                 SetToBag({Task("night_call", "sleep", None, None, FALSE)}))

\* The options picked in the menus of that night: the first doctor and the
\* citizen.
TwoDoctorChoices == {2, 4}

\* The first night of that game and the morning after.
NextTwoDoctors ==
    \/ \E a \in Ids, o \in TwoDoctorChoices : MafiaConfirm(a, o)
    \/ \E a \in Ids, o \in TwoDoctorChoices : DoctorConfirm(a, o)
    \/ \E t \in Waiting : start_night_phase(t)
    \/ \E t \in Waiting : start_night_phase_init(t)
    \/ \E t \in Waiting : start_night_phase_menus(t)
    \/ \E t \in Waiting : poll_trigger(t)
    \/ \E t \in Waiting : poll_exit(t)
    \/ \E t \in Waiting : grace_end(t)
    \/ \E t \in Waiting : confirm_record(t)
    \/ \E t \in Waiting : confirm_fails(t)
    \/ \E t \in Waiting : check_all_night_actions_done(t)
    \/ \E t \in Waiting : start_day_phase_announce(t)

SpecTwoDoctors == StartedTwoDoctorGame /\ [][NextTwoDoctors]_vars

\* A room in which no game was started: the guild has no session (the
\* session fields hold the defaults of a GameState).
EmptyRoom ==
    /\ phase = WAITING
    /\ players = EmptyMap
    /\ settings = GameSettings
    /\ round_number = 0
    /\ mafia_votes = EmptyMap
    /\ mafia_target = None
    /\ doctor_save = None
    /\ police_investigation = None
    /\ night_actions_expected = 0
    /\ night_actions_received = 0
    /\ night_auto_end_triggered = FALSE
    /\ night_actions_submitted = {}
    /\ mafia_skips_used = 0
    /\ discussion_ended = FALSE
    /\ day_votes = EmptyMap
    /\ active_games = None
    /\ tasks = EmptyBag
    /\ menus = {}
    /\ lastOp = NoOp

\* The settings commands and the mafia command in such a room, in any
\* order, and people joining a registration once it is open.
NextIdle ==
    \/ \E c \in MafiaCounts : set_mafia_count_idle(c)
    \/ \E c \in DoctorCounts : set_doctor_count_idle(c)
    \/ \E c \in PoliceCounts : set_police_count_idle(c)
    \/ \E s \in VoteTimes : set_vote_time_idle(s)
    \/ \E c \in MafiaCounts : set_mafia_count(c)
    \/ \E c \in DoctorCounts : set_doctor_count(c)
    \/ \E c \in PoliceCounts : set_police_count(c)
    \/ \E s \in VoteTimes : set_vote_time(s)
    \/ \E c \in SkipCounts : set_skip_kills(c)
    \/ start_mafia_idle
    \/ \E p \in Ids : join_button(p)

SpecIdle == EmptyRoom /\ [][NextIdle]_vars

\* ------------------------------------------------------------ properties
\* The game has no simulated players.
NoDummies == \A p \in DOMAIN players : ~players[p].dummy

\* C1: in a game without simulated players the count of received night
\* actions never exceeds the number of distinct actors that have submitted,
\* however the confirm handlers interleave.
C1_ReceivedWithinSubmitted ==
    NoDummies => night_actions_received <= Cardinality(night_actions_submitted)

\* The resolutions scheduled in round r whose grace delay is running.
ScheduledResolutions(r) ==
    BagCardinality([t \in {u \in Waiting : GraceTask(u) /\ u.who = r} |-> tasks[t]])

\* C2: in any one night round at most one path sets the latch and schedules
\* the resolution, so no round has two resolutions waiting.
C2_OneResolutionPerRound ==
    \A r \in 1 .. MaxRounds : ScheduledResolutions(r) <= 1

\* The resolutions whose grace delay is running.
PendingGrace == BagCardinality([t \in {u \in Waiting : GraceTask(u)} |-> tasks[t]])

\* The mornings under way: start_day_phase called or about to be.
PendingDay == InFlight({"day", "day_call"})

\* No participant's alive flag changes in the step.
AliveUnchanged ==
    /\ DOMAIN players' = DOMAIN players
    /\ \A p \in DOMAIN players : players'[p].is_alive = players[p].is_alive

\* C3: when a grace delay expires after forcestop ended the game and removed
\* the session, no night resolution runs: no alive flag changes, no target
\* is fixed, mafia_skips_used is unchanged, no morning is started, the phase
\* stays ENDED and the session stays out of active_games.
C3_NoResolutionAfterForceStop ==
    [][(phase = ENDED /\ active_games = None /\ PendingGrace' < PendingGrace)
          => /\ AliveUnchanged
             /\ mafia_skips_used' = mafia_skips_used
             /\ mafia_target' = mafia_target
             /\ PendingDay' = PendingDay
             /\ phase' = ENDED
             /\ active_games' = None]_vars

\* A grace delay of the first night has expired in a game that was stopped
\* and removed meanwhile: the latch is set, nothing is scheduled or under
\* way any more and no target was fixed although the mafia has voted.
C3_GraceExpiredAfterForceStop ==
    /\ phase = ENDED
    /\ active_games = None
    /\ night_auto_end_triggered
    /\ tasks = EmptyBag
    /\ DOMAIN mafia_votes # {}
    /\ mafia_target = None
    /\ mafia_skips_used = 0

\* The fields of the participants a stopped game must keep.
ParticipantsUnchanged ==
    /\ DOMAIN players' = DOMAIN players
    /\ \A p \in DOMAIN players :
        /\ players'[p].is_alive = players[p].is_alive
        /\ players'[p].role = players[p].role
        /\ players'[p].doctor_self_save_used = players[p].doctor_self_save_used

\* C4: once the phase is ENDED no participant's alive flag, role or
\* doctor_self_save_used changes.
C4_ParticipantsFrozenAfterEnd == [][phase = ENDED => ParticipantsUnchanged]_vars

\* C5: once the phase is ENDED it never takes another value.
C5_EndedIsTerminal == [][phase = ENDED => phase' = ENDED]_vars

\* A game stopped while the vote was about to open: every coroutine has
\* returned, the discussion was closed and the phase is ENDED.
C5_StoppedBeforeVoting ==
    /\ phase = ENDED
    /\ tasks = EmptyBag
    /\ discussion_ended
    /\ round_number = 1
    /\ <<"vote", None, None>> \notin menus
    /\ Winner(players) = "nobody"

\* The three confirm interactions.
ConfirmOps == {"mafia_confirm", "doctor_confirm", "police_confirm"}

\* C6: a confirmation by an actor who is already in night_actions_submitted
\* is rejected and changes no ballot, no counter and no participant.
C6_DuplicateConfirmRejected ==
    [][(lastOp'.op \in ConfirmOps /\ lastOp'.who \in night_actions_submitted)
          => /\ lastOp'.reply = "already_locked"
             /\ UNCHANGED <<mafia_votes, doctor_save, police_investigation,
                            night_actions_submitted, night_actions_received,
                            players>>]_vars

\* A confirmation was just refused as a duplicate.
C6_DuplicateRefused ==
    /\ lastOp.op \in ConfirmOps
    /\ lastOp.reply = "already_locked"
    /\ lastOp.who \in night_actions_submitted

RolesAssigned == \E p \in DOMAIN players : players[p].role # CITIZEN

\* C8: after the first assign_roles no participant's role ever changes.
C8_RolesAssignedOnce ==
    [][RolesAssigned
          => \A p \in DOMAIN players \cap DOMAIN players' :
                players'[p].role = players[p].role]_vars

\* The targets that alone hold the highest count and beat the skip count,
\* every living participant's missing ballot counted as skip.
SoleLeaders(ps, votes) ==
    {x \in DOMAIN ps :
        /\ TallyCount(ps, votes, x) > TallyCount(ps, votes, None)
        /\ \A y \in DOMAIN ps \ {x} : TallyCount(ps, votes, y) < TallyCount(ps, votes, x)}

\* C9: the tally eliminates a participant exactly when one target alone
\* holds the highest non-skip count and that count is strictly greater than
\* the skip count; then exactly that target dies, and otherwise no alive
\* flag changes.
C9_TallyEliminatesSoleLeader ==
    [][lastOp'.op = "tally"
          => LET leaders == SoleLeaders(players, day_votes)
             IN  IF leaders # {}
                 THEN /\ lastOp'.reply = "eliminated"
                      /\ lastOp'.arg \in leaders
                      /\ players' = [players EXCEPT ![lastOp'.arg].is_alive = FALSE]
                 ELSE /\ lastOp'.reply # "eliminated"
                      /\ players' = players]_vars

\* A tally has just eliminated the one participant most voters named.
C9_SoleLeaderEliminated ==
    /\ lastOp.op = "tally"
    /\ lastOp.reply = "eliminated"
    /\ ~players[lastOp.arg].is_alive
    /\ \A p \in DOMAIN players \ {lastOp.arg} : players[p].is_alive

\* The highest count a target holds in the tally, 0 without any target.
HighestTargetCount(ps, votes) ==
    CHOOSE c \in 0 .. Cardinality(DOMAIN ps) :
        /\ \A x \in DOMAIN ps : TallyCount(ps, votes, x) <= c
        /\ c = 0 \/ \E x \in DOMAIN ps : TallyCount(ps, votes, x) = c

\* C10: when the highest non-skip count equals the skip count the outcome
\* is the tie, and the skipped outcome is produced only when the skip count
\* is strictly greater than the highest non-skip count.
C10_EqualCountsAreATie ==
    [][lastOp'.op = "tally"
          => LET highest == HighestTargetCount(players, day_votes)
                 skips == TallyCount(players, day_votes, None)
             IN  /\ highest = skips => lastOp'.reply = "tie"
                 /\ lastOp'.reply \in {"skipped", "everyone_skipped"} => skips > highest]_vars

\* The tally of {1: 3 votes, skip: 3} over 6 living participants has just
\* ended in a tie.
C10_ThreeAgainstThreeSkips ==
    /\ lastOp.op = "tally"
    /\ lastOp.reply = "tie"
    /\ Cardinality(AlivePlayers(players)) = 6
    /\ TallyCount(players, day_votes, 1) = 3
    /\ TallyCount(players, day_votes, None) = 3

\* The living mafia and the living others, counted from the roster.
LivingMafia == Cardinality({p \in DOMAIN players :
                             players[p].is_alive /\ players[p].role = MAFIA})
LivingOthers == Cardinality({p \in DOMAIN players :
                              players[p].is_alive /\ players[p].role # MAFIA})

\* C11: check_win_condition declares a town win iff no mafia is alive, a
\* mafia win iff living mafia > 0 and living mafia >= living others, and
\* otherwise declares nothing and the game continues.
C11_WinCheckFollowsCounts ==
    lastOp.op = "win_check"
        => /\ lastOp.reply = "citizens" <=> LivingMafia = 0
           /\ lastOp.reply = "mafia" <=> (LivingMafia > 0 /\ LivingMafia >= LivingOthers)
           /\ lastOp.reply = "nobody" <=> (LivingMafia > 0 /\ LivingMafia < LivingOthers)
           /\ phase = ENDED <=> lastOp.reply # "nobody"

\* One living mafia against one living other: the mafia has just won.
C11_OneAgainstOneMafiaWins ==
    /\ lastOp.op = "win_check"
    /\ lastOp.reply = "mafia"
    /\ LivingMafia = 1
    /\ LivingOthers = 1
    /\ phase = ENDED

\* The mornings a resolution has started: waiting for the test-mode
\* announcement or for the voice updates of start_day_phase.
Mornings(bag) == {t \in BagToSet(bag) : t.kind = "day_call" \/ (t.kind = "day" /\ t.pc = "mute")}

\* C12: at night resolution the morning is marked saved exactly when a
\* target was chosen and it is the doctor's save target; a morning marked
\* saved, or without a chosen target, changes no alive flag, and any other
\* morning makes exactly the chosen target's alive flag false.
C12_NightDeathFollowsSave ==
    /\ [][PendingGrace' < PendingGrace
            => \A t \in Mornings(tasks') \ Mornings(tasks) :
                  /\ t.arg = mafia_target'
                  /\ t.flag = (t.arg # None /\ t.arg = doctor_save)]_vars
    /\ [][lastOp'.op = "morning"
            => IF lastOp'.arg = None \/ lastOp'.reply = "saved"
               THEN AliveUnchanged
               ELSE players' = [players EXCEPT ![lastOp'.arg].is_alive = FALSE]]_vars

\* The number of mafia ballots for value v, and the values no other value
\* beats.
BallotsFor(v) == Cardinality({a \in DOMAIN mafia_votes : mafia_votes[a] = v})
LeadingValues ==
    {v \in {mafia_votes[a] : a \in DOMAIN mafia_votes} :
        ~\E w \in {mafia_votes[a] : a \in DOMAIN mafia_votes} : BallotsFor(w) > BallotsFor(v)}

\* C13: a night resolution over the mafia ballots fixes either a target that
\* no ballot value beats, leaving mafia_skips_used alone, or, when no value
\* beats the skip sentinel, no target, adding exactly 1 to mafia_skips_used
\* and starting a morning without a victim; and a morning without a victim
\* changes no alive flag.
C13_ResolutionPicksALeader ==
    /\ [][(PendingGrace' < PendingGrace /\ phase # ENDED /\ DOMAIN mafia_votes # {})
            => \/ /\ mafia_target' \in LeadingValues \ {SKIP_KILL}
                  /\ mafia_skips_used' = mafia_skips_used
               \/ /\ SKIP_KILL \in LeadingValues
                  /\ mafia_target' = None
                  /\ mafia_skips_used' = mafia_skips_used + 1
                  /\ \A t \in Mornings(tasks') \ Mornings(tasks) : t.arg = None]_vars
    /\ [][(lastOp'.op = "morning" /\ lastOp'.arg = None) => AliveUnchanged]_vars

\* Two mafia voted to skip and one named the citizen: the skip was drawn,
\* the budget is used and the morning has come without a death.
C13_SkipOutvotesTarget ==
    /\ lastOp.op = "morning"
    /\ lastOp.arg = None
    /\ BallotsFor(SKIP_KILL) = 2
    /\ BallotsFor(MaxPlayers) = 1
    /\ mafia_skips_used = 1
    /\ \A p \in DOMAIN players : players[p].is_alive

\* The number of participants that hold role r.
Holders(r) == Cardinality({p \in DOMAIN players : players[p].role = r})

\* C14: after assign_roles on a roster of at least m+d+p+1 participants,
\* exactly m are MAFIA, d are DOCTOR, p are POLICE and all the others are
\* CITIZEN.
C14_RoleCountsAsConfigured ==
    (lastOp.op = "assign_roles"
        /\ Cardinality(DOMAIN players)
              >= settings.num_mafia + settings.num_doctor + settings.num_police + 1)
        => /\ Holders(MAFIA) = settings.num_mafia
           /\ Holders(DOCTOR) = settings.num_doctor
           /\ Holders(POLICE) = settings.num_police
           /\ Holders(CITIZEN) = Cardinality(DOMAIN players) - settings.num_mafia
                                    - settings.num_doctor - settings.num_police

\* Six participants with one mafia, one doctor and one police configured
\* have just been dealt their roles: three are citizens.
C14_SixPlayersThreeCitizens ==
    /\ lastOp.op = "assign_roles"
    /\ Cardinality(DOMAIN players) = 6
    /\ settings.num_mafia = 1 /\ settings.num_doctor = 1 /\ settings.num_police = 1
    /\ Holders(MAFIA) = 1 /\ Holders(DOCTOR) = 1 /\ Holders(POLICE) = 1
    /\ Holders(CITIZEN) = 3

\* The living people (not simulated) who hold a night role.
LivingHumanActors ==
    {p \in DOMAIN players :
        /\ players[p].is_alive
        /\ ~players[p].dummy
        /\ players[p].role \in {MAFIA, DOCTOR, POLICE}}

\* C15: in a game with simulated players the auto-resolve latch is set only
\* when every living human mafia, doctor and police actor has submitted.
C15_LatchWaitsForHumans ==
    [][(settings.test_mode /\ ~night_auto_end_triggered /\ night_auto_end_triggered')
          => LivingHumanActors \subseteq night_actions_submitted]_vars

\* C16: a night-action confirmation by a participant who is not alive is
\* rejected and records no ballot; no dead participant is ever added to
\* night_actions_submitted or counted in night_actions_received.
C16_DeadActorRejected ==
    /\ [][(lastOp'.op \in ConfirmOps /\ ~players[lastOp'.who].is_alive)
            => /\ lastOp'.reply # "confirmed"
               /\ UNCHANGED <<mafia_votes, doctor_save, police_investigation,
                              players>>]_vars
    /\ [][\A a \in night_actions_submitted' \ night_actions_submitted :
              players[a].is_alive]_vars

\* C17: a ballot is accepted only in its phase.  A night confirmation
\* delivered while the phase is not NIGHT is not confirmed and leaves
\* mafia_votes, doctor_save, police_investigation and every participant's
\* doctor_self_save_used alone; no actor is added to night_actions_submitted
\* and night_actions_received does not go up while the phase is not NIGHT; a
\* day vote delivered while the phase is not VOTING leaves day_votes alone.
C17_BallotsOnlyInTheirPhase ==
    /\ [][(lastOp'.op \in ConfirmOps /\ phase # NIGHT)
            => /\ lastOp'.reply # "confirmed"
               /\ UNCHANGED <<mafia_votes, doctor_save, police_investigation, players>>]_vars
    /\ [][(phase # NIGHT /\ phase' # NIGHT)
            => /\ night_actions_submitted' \subseteq night_actions_submitted
               /\ night_actions_received' <= night_actions_received]_vars
    /\ [][(lastOp'.op = "vote" /\ phase # VOTING) => day_votes' = day_votes]_vars

\* The actors whose confirm handler wrote its ballot and still waits for the
\* acknowledgment to return.
Acknowledging == {t.who : t \in {u \in Waiting : u.kind = "confirm" /\ u.pc = "ack"}}

\* The actors of role r whose submission is complete or still under way.
Submitting(r) ==
    {a \in DOMAIN players : players[a].role = r}
        \cap (night_actions_submitted \cup Acknowledging)

\* C18: a night submission is all-or-nothing.  Once no confirm handler of an
\* actor waits for its acknowledgment, a recorded ballot of that actor (a
\* mafia_votes entry, doctor_save, police_investigation or a set
\* doctor_self_save_used) comes with the actor in night_actions_submitted.
C18_SubmissionAllOrNothing ==
    /\ \A a \in DOMAIN mafia_votes : a \in night_actions_submitted \cup Acknowledging
    /\ doctor_save # None => Submitting(DOCTOR) # {}
    /\ police_investigation # None => Submitting(POLICE) # {}
    /\ \A a \in DOMAIN players :
           players[a].doctor_self_save_used => a \in night_actions_submitted \cup Acknowledging

\* C19: end_game runs on a live session only.  A win check that finds a
\* winner, and so calls end_game, happens in a session whose phase is not
\* ENDED: neither a force-stop nor an earlier end_game came before it.
C19_EndGameOnLiveSessionOnly ==
    [][(lastOp'.op = "win_check" /\ lastOp'.reply # "nobody")
         => phase # ENDED]_vars

\* C20: the phase follows the state machine.  A step that changes the phase
\* goes to ENDED, to NIGHT from REGISTRATION or VOTING, to DAY from NIGHT or
\* to VOTING from DAY; and a night is entered (round_number goes up) only
\* from REGISTRATION or VOTING, never from NIGHT or DAY.
C20_PhaseFollowsStateMachine ==
    /\ [][phase' # phase
            => \/ phase' = ENDED
               \/ phase' = NIGHT /\ phase \in {REGISTRATION, VOTING}
               \/ phase' = DAY /\ phase = NIGHT
               \/ phase' = VOTING /\ phase = DAY]_vars
    /\ [][round_number' # round_number => phase \in {REGISTRATION, VOTING}]_vars

\* C21: a game starts with a full roster.  Whenever the phase goes from
\* REGISTRATION to NIGHT, the roster holds at least
\* num_mafia + num_doctor + num_police + 1 participants.
C21_NightStartsWithMinimumRoster ==
    [][(phase = REGISTRATION /\ phase' = NIGHT)
         => Cardinality(DOMAIN players') >= min_players(settings')]_vars

\* C22: the settings are fixed once the game runs.  A step that changes any
\* field of settings is taken while the phase is REGISTRATION.
C22_SettingsChangeOnlyInRegistration ==
    [][settings' # settings => phase = REGISTRATION]_vars

\* C23: round_number counts the night entries.  A step that changes
\* round_number adds exactly one and leaves the phase at NIGHT with the
\* night announcement started; every step that starts a night announcement,
\* and every step that brings the phase from elsewhere to NIGHT, adds one.
C23_RoundCountsNightEntries ==
    /\ [][round_number' # round_number
            => /\ round_number' = round_number + 1
               /\ phase' = NIGHT
               /\ InFlight({"night"})' = InFlight({"night"}) + 1]_vars
    /\ [][(InFlight({"night"})' > InFlight({"night"}) \/ (phase # NIGHT /\ phase' = NIGHT))
            => round_number' = round_number + 1]_vars

\* The second night was entered from VOTING and counted.
C23_SecondNightCounted ==
    /\ phase = NIGHT
    /\ round_number = 2
    /\ \E t \in Waiting : t.kind = "night" /\ t.pc = "announce"

\* C24: no self-save two nights running.  A doctor whose last confirmed
\* save was their own id (doctor_self_save_used is set) does not get a save
\* of their own id confirmed in the next night.
C24_NoSelfSaveTwiceRunning ==
    [][(lastOp'.op = "doctor_confirm" /\ lastOp'.reply = "confirmed"
          /\ players[lastOp'.who].doctor_self_save_used)
         => doctor_save' # lastOp'.who]_vars

\* C25: the skip budget is kept.  In every state mafia_skips_used is at
\* most settings.mafia_skip_kills.
C25_SkipsWithinBudget == mafia_skips_used <= settings.mafia_skip_kills

\* C26: the tally waits for the whole countdown and then runs.  A tally is
\* made by a voting coroutine whose elapsed time has reached its
\* voting_time, whatever ballots are in; and a voting coroutine whose
\* countdown is over ends with the tally unless the session has ended.
C26_TallyAfterFullCountdown ==
    /\ [][lastOp'.op = "tally"
            => \E t \in Waiting :
                  /\ t.kind = "voting" /\ t.pc = "countdown"
                  /\ t.arg >= t.who
                  /\ t \notin BagToSet(tasks')]_vars
    /\ [][(phase # ENDED
             /\ \E t \in Waiting : /\ t.kind = "voting" /\ t.pc = "countdown"
                                   /\ t \notin BagToSet(tasks'))
            => lastOp'.op = "tally"]_vars

\* A tally was made although every participant had voted long before.
C26_EveryoneVotedBeforeTheTally ==
    /\ lastOp.op = "tally"
    /\ DOMAIN day_votes = DOMAIN players

\* The sum of the tally counts of the ballot values in X.
RECURSIVE SumOfCounts(_, _, _)
SumOfCounts(ps, votes, X) ==
    IF X = {} THEN 0
    ELSE LET x == CHOOSE y \in X : TRUE
         IN  TallyCount(ps, votes, x) + SumOfCounts(ps, votes, X \ {x})

\* The living participants whose recorded ballot names x.
LivingBallotsFor(x) ==
    {v \in DOMAIN day_votes : players[v].is_alive /\ day_votes[v] = x}

\* C27: in the tally every living participant counts once.  When the tally
\* is made the counts of all ballot values sum to the number of the living,
\* a target's count is the number of living participants whose ballot names
\* it, and the skip count is made of the living who voted skip and the
\* living without a ballot; ballots of the dead are in none of them.
C27_EveryLivingCountsOnce ==
    [][lastOp'.op = "tally"
         => /\ SumOfCounts(players, day_votes, DOMAIN players \cup {None})
                 = Cardinality(AlivePlayers(players))
            /\ \A x \in DOMAIN players :
                  TallyCount(players, day_votes, x) = Cardinality(LivingBallotsFor(x))
            /\ TallyCount(players, day_votes, None)
                 = Cardinality(LivingBallotsFor(None))
                     + Cardinality(AlivePlayers(players) \ DOMAIN day_votes)]_vars

\* A tally was made with a ballot of a dead participant on record and a
\* living participant without a ballot.
C27_DeadBallotAndSilentLiving ==
    /\ lastOp.op = "tally"
    /\ lastOp.reply = "skipped"
    /\ \E v \in DOMAIN day_votes : ~players[v].is_alive
    /\ AlivePlayers(players) \ DOMAIN day_votes # {}

\* C28: an ended session is removed.  Whenever the phase of the session is
\* ENDED, the session is at some later time no longer the one registered in
\* active_games.
C28_EndedSessionIsRemoved == (phase = ENDED) ~> (active_games # ThisGame)

\* The start commands that lastOp records.
StartOps == {"mafia", "testmafia"}

\* C29: one live session per room.  A start command issued while the
\* registered session has a phase other than ENDED is rejected and changes
\* neither the session nor active_games; a start command that creates a
\* game finds no session registered or an ended one.
C29_StartRejectedWhileInProgress ==
    /\ [][(lastOp'.op \in StartOps /\ active_games = ThisGame /\ phase # ENDED)
            => /\ lastOp'.reply = "rejected"
               /\ UNCHANGED <<phase, players, settings, round_number, nightVars,
                              mafia_skips_used, discussion_ended, day_votes,
                              active_games, tasks, menus>>]_vars
    /\ [][(lastOp'.op \in StartOps /\ lastOp'.reply = "created")
            => active_games = None \/ phase = ENDED]_vars

\* A start command was refused while the discussion of the running game was
\* open.
C29_RefusedDuringDiscussion ==
    /\ lastOp.op \in StartOps
    /\ lastOp.reply = "rejected"
    /\ active_games = ThisGame
    /\ phase = DAY

\* C30: a cleanup removes its own session only.  Once a later game is
\* registered in active_games, no step of the model, the cleanups of the
\* ended session included, unregisters it.
C30_CleanupKeepsLaterGame ==
    [][active_games = NewGame => active_games' = NewGame]_vars

\* C31: the roster is frozen once a start is accepted.  While a start
\* handler is on its way to the first night nobody joins or leaves, and when
\* the phase goes from REGISTRATION to NIGHT the roster holds the configured
\* number of mafia, doctors and police.
C31_RosterFrozenAfterStart ==
    /\ [][(phase = REGISTRATION /\ InFlight({"start", "night_call"}) > 0)
            => DOMAIN players' = DOMAIN players]_vars
    /\ [][(phase = REGISTRATION /\ phase' = NIGHT)
            => /\ Holders(MAFIA)' = settings'.num_mafia
               /\ Holders(DOCTOR)' = settings'.num_doctor
               /\ Holders(POLICE)' = settings'.num_police]_vars

\* C32: voting is started at most once per DAY.  Of the host's Start Voting
\* click and the expiry of the discussion timer exactly one closes the
\* discussion and calls start_voting_phase: a call is made only by the step
\* that sets discussion_ended in the DAY phase, the phase leaves DAY for
\* VOTING only after that, and never are two voting phases under way.
C32_VotingStartedOncePerDay ==
    /\ [](InFlight({"vote_call", "voting"}) <= 1)
    /\ [][InFlight({"vote_call"})' > InFlight({"vote_call"})
            => /\ phase = DAY
               /\ ~discussion_ended
               /\ discussion_ended'
               /\ InFlight({"vote_call"})' = 1]_vars
    /\ [][(phase = DAY /\ phase' = VOTING)
            => (discussion_ended /\ day_votes' = EmptyMap)]_vars

\* The host's click won the race: the voting countdown runs while the
\* discussion timer of the same day has yet to see that the discussion ended.
C32_ClickBeatsTimer ==
    /\ phase = VOTING
    /\ discussion_ended
    /\ InFlight({"timer"}) = 1
    /\ \E t \in Waiting : t.kind = "voting" /\ t.pc = "tick"

\* A step in which start_day_phase opens the discussion (its timer starts).
OpensDiscussion == InFlight({"timer"})' > InFlight({"timer"})

\* A step in which process_voting_results ends by offering the next night.
OffersNextNight ==
    /\ InFlight({"tally"})' < InFlight({"tally"})
    /\ InFlight({"cleanup"})' = InFlight({"cleanup"})
    /\ phase' # ENDED
    /\ <<"next", None, None>> \in menus'

\* C33: after every night resolution and every tally the win condition is
\* evaluated on the roster as that resolution left it, before the next phase
\* is opened: the discussion is never opened and the next night never
\* offered while no mafia lives or the living mafia are at least as many as
\* the living others.
C33_NoOpeningOfADecidedGame ==
    [][(OpensDiscussion \/ OffersNextNight)
          => /\ LivingMafia' >= 1
             /\ LivingMafia' < LivingOthers'
             /\ lastOp'.op = "win_check"
             /\ players' = players]_vars

\* The morning after a night that killed somebody: the win check found no
\* winner among the survivors and the discussion has just opened.
C33_DiscussionAfterADeath ==
    /\ lastOp.op = "win_check"
    /\ lastOp.reply = "nobody"
    /\ phase = DAY
    /\ ~discussion_ended
    /\ \E p \in DOMAIN players : ~players[p].is_alive
    /\ InFlight({"timer"}) >= 1

\* The night is waiting for quorum: start_night_phase is in its polling loop
\* and the latch is not set.
WaitingForQuorum ==
    /\ phase = NIGHT
    /\ ~night_auto_end_triggered
    /\ \E t \in Waiting : t.kind = "night" /\ t.pc = "poll"

\* C35: a night submission that arrives while start_night_phase is still
\* initialising the round is not lost: in a game without simulated players,
\* whenever the night is waiting for quorum, night_actions_received equals
\* the number of actors in night_actions_submitted.
C35_SubmissionDuringInitCounted ==
    (NoDummies /\ WaitingForQuorum)
        => night_actions_received = Cardinality(night_actions_submitted)

\* Every living actor counted in night_actions_expected has confirmed an
\* action in the running night round.
AllActorsConfirmed ==
    /\ phase = NIGHT
    /\ ExpectedActors(players, settings) \subseteq night_actions_submitted

\* C34: night liveness.  In a night round in which every living mafia,
\* doctor and police actor has confirmed one action, and without a
\* force-stop, the night is eventually resolved and the phase leaves NIGHT.
C34_ConfirmedNightIsResolved == AllActorsConfirmed ~> (phase # NIGHT)

HostPressedStartNight == \E t \in Waiting : t.kind = "night_call"

C37_FirstNightUndecided ==
    [][(phase = REGISTRATION /\ phase' = NIGHT
            /\ Cardinality(DOMAIN players') >= min_players(settings'))
          => /\ LivingMafia' >= 1
             /\ LivingMafia' < LivingOthers']_vars

\* The living doctors who confirmed, in the running round, a save of
\* themselves: the confirm handler sets doctor_self_save_used exactly for a
\* self-save and then adds the doctor to night_actions_submitted.
SelfSavers ==
    {d \in AliveWithRole(players, DOCTOR) :
        players[d].doctor_self_save_used /\ d \in night_actions_submitted}

\* C38: with more than one doctor configured, a save confirmed by any living
\* doctor protects its target.  For the saves the session keeps per doctor:
\* when the mafia's chosen target is a living doctor who confirmed a save of
\* themself in that night round, the morning leaves that doctor alive.
C38_AnyDoctorsSaveProtects ==
    [][(lastOp'.op = "morning" /\ round_number = 1 /\ lastOp'.arg \in SelfSavers)
          => players'[lastOp'.arg].is_alive]_vars

\* The guild's session was created by a settings command: no game is in
\* registration or play.
PreparedRoom == active_games = ThisGame /\ phase = WAITING

\* C39: a setting changed while the room has no game in registration or
\* play prepares the next game: a following mafia command creates a session
\* in REGISTRATION, and that session has the settings that were set.
C39_SettingsPrepareNextGame ==
    [][(lastOp'.op = "mafia" /\ PreparedRoom)
          => /\ lastOp'.reply = "created"
             /\ phase' = REGISTRATION
             /\ settings' = settings]_vars

=============================================================================
